---- MODULE Spec2Model ----
(***************************************************************************)
(* Territory classification (maps/territory_analyzer.py), exclave          *)
(* reduction (maps/cli.py) and view framing (maps/renderer.py and the      *)
(* older draw_map.py) of anki-geography-maps.                              *)
(*                                                                         *)
(* Numbers.  The program computes in IEEE doubles.  The model computes in  *)
(* exact arithmetic: a float is a reduced fraction <<n, d>> with d > 0.    *)
(* math.sqrt is exact as well: the renderer's coordinates are values       *)
(* r + c * scale_factor (a pair [r, c] of fractions) where scale_factor is *)
(* the positive root of 1 / target_percentage.                             *)
(***************************************************************************)
EXTENDS Integers, Sequences, FiniteSets, TLC

(* ------------------------------ bounds --------------------------------- *)
MaxFragments == 3
MaxDim == 2

(* ------------------------- exact fractions ----------------------------- *)
Abs(i) == IF i < 0 THEN -i ELSE i

RECURSIVE Gcd(_, _)
Gcd(a, b) == IF b = 0 THEN a ELSE Gcd(b, a % b)

\* the fraction n / d in lowest terms with a positive denominator (d # 0)
Frac(n, d) ==
    LET g == Gcd(Abs(n), Abs(d))
        s == IF d < 0 THEN -1 ELSE 1
    IN  <<(s * n) \div g, (s * d) \div g>>

Num(i) == <<i, 1>>
Zero == Num(0)
Hundred == Num(100)

RAdd(x, y) == Frac(x[1] * y[2] + y[1] * x[2], x[2] * y[2])
RSub(x, y) == Frac(x[1] * y[2] - y[1] * x[2], x[2] * y[2])
RMul(x, y) == Frac(x[1] * y[1], x[2] * y[2])
\* x / y, y # 0 (a zero divisor is ZeroDivisionError, decided by the caller)
RDiv(x, y) == Frac(x[1] * y[2], x[2] * y[1])
RLe(x, y) == x[1] * y[2] <= y[1] * x[2]
RLt(x, y) == x[1] * y[2] < y[1] * x[2]
RMax(x, y) == IF RLt(x, y) THEN y ELSE x
RHalf(x) == RDiv(x, Num(2))

RECURSIVE RSum(_)
RSum(s) == IF s = <<>> THEN Zero ELSE RAdd(Head(s), RSum(Tail(s)))

(* ----------------------------- geometry -------------------------------- *)
\* A fragment is an axis-aligned rectangle [x, y, w, h] (a shapely Polygon);
\* w = 0 or h = 0 is a degenerate polygon of area 0.
OriginX == 34
OriginY == 29
Pitch == MaxDim + 1

\* <<w, h>>: the squares (a point for 0), a wide and a tall strip, and the
\* two segments
Shapes ==
    {<<d, d>> : d \in 0 .. MaxDim}
        \cup {<<2, 1>>, <<1, 2>>, <<0, MaxDim>>, <<MaxDim, 0>>}

\* the i-th fragment of a country: fragments are laid out left to right and
\* staggered upwards, so no two of them overlap
Fragment(i, shape) ==
    [x |-> OriginX + (i - 1) * Pitch, y |-> OriginY + (i - 1),
     w |-> shape[1], h |-> shape[2]]

Polygons == {[kind |-> "Polygon", geoms |-> <<Fragment(1, s)>>] : s \in Shapes}

MultiPolygons ==
    UNION {{[kind |-> "MultiPolygon",
             geoms |-> [i \in 1 .. n |-> Fragment(i, ss[i])]] :
            ss \in [1 .. n -> Shapes]} : n \in 1 .. MaxFragments}

Geometries == Polygons \cup MultiPolygons

\* shapely: Polygon.area, Polygon.centroid, Polygon.bounds
Area(p) == Num(p.w * p.h)
Centroid(p) == <<Frac(2 * p.x + p.w, 2), Frac(2 * p.y + p.h, 2)>>
PolyBounds(p) == <<p.x, p.y, p.x + p.w, p.y + p.h>>

\* bounding box of a geometry: Polygon.bounds, or MultiPolygon.bounds /
\* GeoDataFrame.total_bounds (the box around all fragments)
RECURSIVE MinOf(_, _)
MinOf(s, k) ==
    IF Len(s) = 1 THEN s[1][k]
    ELSE LET m == MinOf(Tail(s), k) IN IF s[1][k] < m THEN s[1][k] ELSE m

RECURSIVE MaxOf(_, _)
MaxOf(s, k) ==
    IF Len(s) = 1 THEN s[1][k]
    ELSE LET m == MaxOf(Tail(s), k) IN IF s[1][k] > m THEN s[1][k] ELSE m

Bounds(g) ==
    LET bs == [i \in 1 .. Len(g.geoms) |-> PolyBounds(g.geoms[i])]
    IN  <<MinOf(bs, 1), MinOf(bs, 2), MaxOf(bs, 3), MaxOf(bs, 4)>>

\* The neighbours load_country_data returns with the country.  In the
\* modelled database every fragment of a country borders one neighbouring
\* country of its own, named after the fragment's position.
NeighborNames(g) == [i \in 1 .. Len(g.geoms) |-> i]

\* neighbor_geom.intersects(polygon) or neighbor_geom.touches(polygon), for
\* the neighbour called name and a fragment of the country geom
Borders(name, polygon, geom) ==
    /\ name \in 1 .. Len(geom.geoms)
    /\ geom.geoms[name] = polygon

(* ------------------------ territory analysis --------------------------- *)
None == "None"
NoGeometry == [kind |-> None, geoms |-> <<>>]
NoThreshold == <<>>

\* main_area_threshold values a caller may construct the analyzer with
DefaultThreshold == Frac(8, 10)
Thresholds == {Frac(1, 2), Frac(7, 10), DefaultThreshold, Frac(9, 10), Num(1)}

\* faulty variant: the [::-1] is missing
NotReversed(s) == s

Reverse(s) == [i \in 1 .. Len(s) |-> s[Len(s) + 1 - i]]

\* np.argsort(areas): an index order in which the areas ascend.  The default
\* sort kind is not stable, so equal areas may come out in either order.
Argsort(areas) ==
    LET n == Len(areas)
    IN  {o \in Permutations(1 .. n) :
            \A i \in 1 .. n - 1 : RLe(areas[o[i]], areas[o[i + 1]])}

\* squared Euclidean distance of two points; a distance is a non-negative
\* real and is represented by its square (max and <= agree on both)
DistanceSq(a, b) ==
    LET dx == RSub(a[1], b[1])
        dy == RSub(a[2], b[2])
    IN  RAdd(RMul(dx, dx), RMul(dy, dy))

\* faulty variant: only fragments listed next to each other are compared
RECURSIVE MaxDistanceAdjacent(_, _, _)
MaxDistanceAdjacent(polygons, i, j) ==
    IF i >= Len(polygons) THEN Zero
    ELSE RMax(DistanceSq(Centroid(polygons[i]), Centroid(polygons[i + 1])),
              MaxDistanceAdjacent(polygons, i + 1, i + 2))

\* the double loop over i < j of analyze
RECURSIVE MaxDistance(_, _, _)
MaxDistance(polygons, i, j) ==
    IF i > Len(polygons) THEN Zero
    ELSE IF j > Len(polygons) THEN MaxDistance(polygons, i + 1, i + 2)
    ELSE RMax(DistanceSq(Centroid(polygons[i]), Centroid(polygons[j])),
              MaxDistance(polygons, i, j + 1))

\* TerritoryAnalysisResult.__post_init__
PostInit(r) ==
    IF r.main_polygon_area = Zero
    THEN [r EXCEPT !.main_polygon_area = r.total_area]
    ELSE r

\* analyze left by an exception instead of a return
Raised(exc) ==
    [raised |-> exc, geometry_type |-> None, total_area |-> Zero,
     main_polygon_area |-> Zero, main_polygon_percentage |-> Zero,
     polygon_count |-> 0, max_distance_between_polygons |-> Zero,
     separate_territories |-> <<>>]

NoResult == Raised("NotCalled")

\* faulty variant: the boundary is excluded (> instead of >=)
IsDominantStrict(main_polygon_percentage, threshold) ==
    RLt(RMul(threshold, Hundred), main_polygon_percentage)

\* main_polygon_percentage >= main_area_threshold * 100
IsDominant(main_polygon_percentage, threshold) ==
    RLe(RMul(threshold, Hundred), main_polygon_percentage)

\* faulty variant: the threshold is compared as a fraction of 1, not of 100
GeometryTypeOfUnscaled(polygon_count, main_polygon_percentage, threshold) ==
    IF polygon_count = 1 THEN "CONTINUOUS"
    ELSE IF RLe(threshold, main_polygon_percentage) THEN "HAS_EXCLAVE"
    ELSE "ISLAND_NATION"

GeometryTypeOf(polygon_count, main_polygon_percentage, threshold) ==
    IF polygon_count = 1 THEN "CONTINUOUS"
    ELSE IF IsDominant(main_polygon_percentage, threshold) THEN "HAS_EXCLAVE"
    ELSE "ISLAND_NATION"

\* faulty variant: whole percents (integer division)
PercentageFloor(area, total_area) ==
    Num((area[1] * total_area[2] * 100) \div (area[2] * total_area[1]))

Percentage(area, total_area) == RMul(RDiv(area, total_area), Hundred)

TerritoryOf(polygon, total_area) ==
    [area |-> Area(polygon), percentage |-> Percentage(Area(polygon), total_area),
     centroid |-> Centroid(polygon)]

\* faulty variant: the fragment listed first is taken for the main polygon
ClassifyMultiFirstListed(geometry, threshold, order) ==
    LET polygons == geometry.geoms
        areas == [i \in 1 .. Len(polygons) |-> Area(polygons[i])]
    IN  GeometryTypeOf(Len(polygons),
                       Percentage(Area(polygons[1]), RSum(areas)), threshold)

\* TerritoryAnalyzer.analyze on a MultiPolygon of positive area: the class
ClassifyMulti(geometry, threshold, order) ==
    LET polygons == geometry.geoms
        areas == [i \in 1 .. Len(polygons) |-> Area(polygons[i])]
        main_polygon == polygons[Reverse(order)[1]]
    IN  GeometryTypeOf(Len(polygons),
                       Percentage(Area(main_polygon), RSum(areas)), threshold)

\* TerritoryAnalyzer.analyze on a MultiPolygon; order is the outcome of argsort
AnalyzeMulti(geometry, threshold, order) ==
    LET polygons == geometry.geoms
        polygon_count == Len(polygons)
        areas == [i \in 1 .. polygon_count |-> Area(polygons[i])]
        total_area == RSum(areas)
        sorted_indices == Reverse(order)
        main_polygon == polygons[sorted_indices[1]]
        main_polygon_area == Area(main_polygon)
    IN  IF total_area = Zero THEN Raised("ZeroDivisionError")
        ELSE LET main_polygon_percentage == Percentage(main_polygon_area, total_area)
             IN  PostInit(
                 [raised |-> None,
                  geometry_type |-> ClassifyMulti(geometry, threshold, order),
                  total_area |-> total_area,
                  main_polygon_area |-> main_polygon_area,
                  main_polygon_percentage |-> main_polygon_percentage,
                  polygon_count |-> polygon_count,
                  max_distance_between_polygons |-> MaxDistance(polygons, 1, 2),
                  separate_territories |->
                     [k \in 1 .. polygon_count |->
                        TerritoryOf(polygons[sorted_indices[k]], total_area)]])

\* faulty variant: no special case, a Polygon goes through the general path
AnalyzePolygonAsMulti(geometry) == AnalyzeMulti(geometry, DefaultThreshold, <<1>>)

\* TerritoryAnalyzer.analyze on a Polygon
AnalyzePolygon(geometry) ==
    LET p == geometry.geoms[1]
        area == Area(p)
    IN  PostInit(
        [raised |-> None, geometry_type |-> "CONTINUOUS", total_area |-> area,
         main_polygon_area |-> area, main_polygon_percentage |-> Hundred,
         polygon_count |-> 1, max_distance_between_polygons |-> Zero,
         separate_territories |->
            <<[area |-> area, percentage |-> Hundred, centroid |-> Centroid(p)]>>])

Areas(geometry) == [i \in 1 .. Len(geometry.geoms) |-> Area(geometry.geoms[i])]

\* Geometries that are neither a Polygon nor a MultiPolygon.  A Point and a
\* LineString have no parts (no .geoms); the parts of a MultiPoint have area
\* 0; the parts of a GeometryCollection are of any kind, here polygons.
\* n unit squares side by side: n fragments of equal area
EqualParts(n) == [i \in 1 .. n |-> Fragment(i, <<1, 1>>)]

OtherGeometries ==
    {[kind |-> "Point", geoms |-> <<Fragment(1, <<0, 0>>)>>],
     [kind |-> "LineString", geoms |-> <<Fragment(1, <<MaxDim, 0>>)>>],
     [kind |-> "MultiPoint",
      geoms |-> <<Fragment(1, <<0, 0>>), Fragment(2, <<0, 0>>)>>],
     [kind |-> "GeometryCollection", geoms |-> EqualParts(2)]}

\* the geometries handed to an analyzer that is called again and again
AnalyzerGeometries ==
    {[kind |-> "Polygon", geoms |-> EqualParts(1)],
     [kind |-> "MultiPolygon",
      geoms |-> <<Fragment(1, <<1, 1>>), Fragment(2, <<MaxDim, MaxDim>>)>>]}
        \cup {[kind |-> "MultiPolygon", geoms |-> EqualParts(n)] :
              n \in 1 .. MaxFragments}
        \cup OtherGeometries

\* np.argsort is a deterministic algorithm: one build orders equal areas the
\* same way every time, by ascending or by descending index
ArgsortTies == {"ascending", "descending"}

ArgsortOf(areas, ties) ==
    CHOOSE o \in Argsort(areas) :
        \A i \in 1 .. Len(areas) - 1 :
            areas[o[i]] = areas[o[i + 1]] =>
                IF ties = "ascending" THEN o[i] < o[i + 1] ELSE o[i] > o[i + 1]

\* TerritoryAnalyzer.analyze on whatever it is handed: a geometry without
\* .geoms ends list(geometry.geoms) in AttributeError, every other one goes
\* through the MultiPolygon path
Analyze(geometry, threshold, order) ==
    IF geometry.kind = "Polygon" THEN AnalyzePolygon(geometry)
    ELSE IF geometry.kind \in {"Point", "LineString"} THEN Raised("AttributeError")
    ELSE AnalyzeMulti(geometry, threshold, order)

\* the database file: whether it exists, whether reading it fails (a missing
\* table, a corrupt file), and the GEOMETRY of the country's row (NoGeometry:
\* the country has no row)
NoDb == [exists |-> FALSE, fault |-> FALSE, row |-> NoGeometry]
HealthyDb(row) == [exists |-> TRUE, fault |-> FALSE, row |-> row]

\* load_country_geometry(country_name, db_path)
LoadCountryGeometry(db) ==
    IF ~db.exists THEN [raised |-> "FileNotFoundError", geometry |-> NoGeometry]
    ELSE IF db.fault THEN [raised |-> "OperationalError", geometry |-> NoGeometry]
    ELSE IF db.row = NoGeometry THEN [raised |-> "ValueError", geometry |-> NoGeometry]
    ELSE IF db.row.kind \notin {"Polygon", "MultiPolygon"}
    THEN [raised |-> "TypeError", geometry |-> NoGeometry]
    ELSE [raised |-> None, geometry |-> db.row]

\* TerritoryAnalyzer.analyze_from_db(country_name, db_path)
AnalyzeFromDb(db, threshold, order) ==
    LET loaded == LoadCountryGeometry(db)
    IN  IF loaded.raised # None THEN Raised(loaded.raised)
        ELSE Analyze(loaded.geometry, threshold, order)

(* -------------------------- exclave reduction -------------------------- *)
\* faulty variant: the first fragment is taken for the main one
FirstFragment(geoms) == geoms[1]

\* max(geoms, key=lambda p: p.area): the first fragment of maximal area
RECURSIVE MaxByArea(_)
MaxByArea(geoms) ==
    IF Len(geoms) = 1 THEN geoms[1]
    ELSE LET rest == MaxByArea(Tail(geoms))
         IN  IF RLt(Area(geoms[1]), Area(rest)) THEN rest ELSE geoms[1]

AsPolygon(p) == [kind |-> "Polygon", geoms |-> <<p>>]

NoFiltered == [country |-> NoGeometry, percentage |-> Zero, same_object |-> FALSE]

\* faulty variant: a Polygon is copied like a MultiPolygon
FilterExclavesCopies(target_geom, territory_info) ==
    [country |-> AsPolygon(MaxByArea(target_geom.geoms)),
     percentage |-> territory_info.separate_territories[1].percentage,
     same_object |-> FALSE]

\* filter_exclaves(target_country, territory_info): the returned pair, and
\* whether the returned frame is the caller's own object
FilterExclaves(target_geom, territory_info) ==
    LET percentage == territory_info.separate_territories[1].percentage
    IN  IF target_geom.kind = "MultiPolygon"
        THEN [country |-> AsPolygon(MaxByArea(target_geom.geoms)),
              percentage |-> percentage, same_object |-> FALSE]
        ELSE [country |-> target_geom, percentage |-> percentage,
              same_object |-> TRUE]

(* ----------------------------- view framing ---------------------------- *)
\* A coordinate of the view is r + c * scale_factor, written [r, c], where
\* scale_factor = 1 / math.sqrt(target_percentage) > 0 and q = scale_factor^2
\* = 1 / target_percentage.
Surd(r, c) == [r |-> r, c |-> c]
Plain(r) == Surd(r, Zero)
SAdd(x, y) == Surd(RAdd(x.r, y.r), RAdd(x.c, y.c))
SSub(x, y) == Surd(RSub(x.r, y.r), RSub(x.c, y.c))
SScale(k, x) == Surd(RMul(k, x.r), RMul(k, x.c))

RSign(x) == IF x[1] > 0 THEN 1 ELSE IF x[1] < 0 THEN -1 ELSE 0

\* the sign of r + c * sqrt(q)
SSign(x, q) ==
    IF RSign(x.c) = 0 THEN RSign(x.r)
    ELSE IF RSign(x.r) = 0 \/ RSign(x.r) = RSign(x.c) THEN RSign(x.c)
    ELSE LET r2 == RMul(x.r, x.r)
             c2q == RMul(RMul(x.c, x.c), q)
         IN  IF RLt(c2q, r2) THEN RSign(x.r)
             ELSE IF RLt(r2, c2q) THEN RSign(x.c) ELSE 0

SLe(x, y, q) == SSign(SSub(x, y), q) <= 0
SEq(x, y, q) == SSign(SSub(x, y), q) = 0
\* the square of r + c * sqrt(q), for c = 0 or r = 0 (a fraction)
SSquare(x, q) == RAdd(RMul(x.r, x.r), RMul(RMul(x.c, x.c), q))

\* config.target_percentage, config.figsize, config.exclude_exclaves
Fractions == {Num(1), Frac(1, 2), Frac(1, 4)}
Figsizes == {<<10, 8>>, <<8, 10>>, <<10, 10>>}
Configs ==
    [target_percentage : Fractions, figsize : Figsizes,
     exclude_exclaves : BOOLEAN, main_area_threshold : {DefaultThreshold}]

AspectRatio(config) == Frac(config.figsize[1], config.figsize[2])

NoConfig ==
    [target_percentage |-> Zero, figsize |-> <<0, 0>>,
     exclude_exclaves |-> FALSE, main_area_threshold |-> NoThreshold]

NoView ==
    [variant |-> None, raised |-> None, config |-> NoConfig,
     target_geom |-> NoGeometry, neighbor_names |-> <<>>,
     fallback |-> FALSE, square |-> <<>>, bounds |-> <<>>]

\* faulty variant: a reduction drops one smallest fragment only
RendererTargetDropsSmallest(target_geom, config) ==
    IF /\ config.exclude_exclaves
       /\ target_geom.kind = "MultiPolygon"
       /\ Len(target_geom.geoms) >= 2
    THEN LET geoms == target_geom.geoms
             k == CHOOSE i \in 1 .. Len(geoms) :
                     \A j \in 1 .. Len(geoms) : RLe(Area(geoms[i]), Area(geoms[j]))
         IN  [kind |-> "MultiPolygon",
              geoms |-> [j \in 1 .. Len(geoms) - 1 |->
                            IF j < k THEN geoms[j] ELSE geoms[j + 1]]]
    ELSE target_geom

\* maps/renderer.py create_map: the geometry the bounds are computed from
RendererTarget(target_geom, config) ==
    IF config.exclude_exclaves /\ target_geom.kind = "MultiPolygon"
    THEN AsPolygon(MaxByArea(target_geom.geoms))
    ELSE target_geom

\* faulty variant: math.sqrt(target_percentage), the inverse factor
ScaleFactorInverted(target_percentage) == Surd(Zero, target_percentage)

\* maps/renderer.py create_map: scale_factor = 1.0 / math.sqrt(target_percentage)
ScaleFactor(target_percentage) == Surd(Zero, Num(1))

\* maps/renderer.py create_map: new_bounds, the limits set on the axes, and
\* the countries given country_type "neighbor"
RendererView(geom, neighbor_names, config) ==
    LET target_geom == RendererTarget(geom, config)
        bounds == Bounds(target_geom)
        target_width == bounds[3] - bounds[1]
        target_height == bounds[4] - bounds[2]
        target_size == IF target_width > target_height
                       THEN target_width ELSE target_height
        center_x == Plain(Frac(bounds[1] + bounds[3], 2))
        center_y == Plain(Frac(bounds[2] + bounds[4], 2))
        total_size == SScale(Num(target_size), ScaleFactor(config.target_percentage))
        half == SScale(Frac(1, 2), total_size)
        new_bounds == <<SSub(center_x, half), SSub(center_y, half),
                        SAdd(center_x, half), SAdd(center_y, half)>>
    IN  [variant |-> "renderer", raised |-> None, config |-> config,
         target_geom |-> target_geom, neighbor_names |-> neighbor_names,
         fallback |-> FALSE, square |-> new_bounds,
         \* set_xlim / set_ylim(new_bounds); set_aspect("equal") keeps the limits
         bounds |-> new_bounds]

\* draw_map.py create_map: the geometry the bounds are computed from (only a
\* dominant main polygon replaces the country); total_area > 0
LegacyTarget(geom, config) ==
    IF config.exclude_exclaves /\ geom.kind = "MultiPolygon"
    THEN LET main_polygon == MaxByArea(geom.geoms)
             main_polygon_pct == Percentage(Area(main_polygon), RSum(Areas(geom)))
         IN  IF IsDominant(main_polygon_pct, config.main_area_threshold)
             THEN AsPolygon(main_polygon) ELSE geom
    ELSE geom

\* faulty variant: the "- 1" is missing
BufferFactorNoOffset(target_percentage) ==
    RHalf(RDiv(Num(1), target_percentage))

\* draw_map.py create_map: buffer_factor = (1 / target_percentage - 1) / 2
BufferFactor(target_percentage) ==
    RHalf(RSub(RDiv(Num(1), target_percentage), Num(1)))

\* faulty variant: each axis is buffered by its own extent
LegacySquareByAxis(target_bounds, config) ==
    LET x_min == target_bounds[1]
        y_min == target_bounds[2]
        x_max == target_bounds[3]
        y_max == target_bounds[4]
        center_x == Frac(x_min + x_max, 2)
        center_y == Frac(y_min + y_max, 2)
        target_width == Num(x_max - x_min)
        target_height == Num(y_max - y_min)
        reach_x == RAdd(RHalf(target_width),
                        RMul(target_width, BufferFactor(config.target_percentage)))
        reach_y == RAdd(RHalf(target_height),
                        RMul(target_height, BufferFactor(config.target_percentage)))
    IN  <<RSub(center_x, reach_x), RSub(center_y, reach_y),
          RAdd(center_x, reach_x), RAdd(center_y, reach_y)>>

\* draw_map.py create_map: the view focused on the target, before the
\* aspect adjustment
LegacySquare(target_bounds, config) ==
    LET x_min == target_bounds[1]
        y_min == target_bounds[2]
        x_max == target_bounds[3]
        y_max == target_bounds[4]
        center_x == Frac(x_min + x_max, 2)
        center_y == Frac(y_min + y_max, 2)
        target_width == x_max - x_min
        target_height == y_max - y_min
        target_size == Num(IF target_width > target_height
                           THEN target_width ELSE target_height)
        target_buffer == RMul(target_size, BufferFactor(config.target_percentage))
        reach == RAdd(RHalf(target_size), target_buffer)
    IN  <<RSub(center_x, reach), RSub(center_y, reach),
          RAdd(center_x, reach), RAdd(center_y, reach)>>

\* faulty variant: the height is grown to view_width * aspect_ratio
AspectAdjustMultiplied(v, aspect_ratio) ==
    LET view_width == RSub(v[3], v[1])
        view_height == RSub(v[4], v[2])
    IN  IF view_height # Zero /\ RLt(aspect_ratio, RDiv(view_width, view_height))
        THEN LET extra_height == RSub(RMul(view_width, aspect_ratio), view_height)
             IN  <<v[1], RSub(v[2], RHalf(extra_height)),
                   v[3], RAdd(v[4], RHalf(extra_height))>>
        ELSE LET extra_width == RSub(RMul(view_height, aspect_ratio), view_width)
             IN  <<RSub(v[1], RHalf(extra_width)), v[2],
                   RAdd(v[3], RHalf(extra_width)), v[4]>>

\* faulty variant: the whole extra extent is added on the max side
AspectAdjustOneSided(v, aspect_ratio) ==
    LET view_width == RSub(v[3], v[1])
        view_height == RSub(v[4], v[2])
    IN  IF view_height # Zero /\ RLt(aspect_ratio, RDiv(view_width, view_height))
        THEN LET extra_height == RSub(RDiv(view_width, aspect_ratio), view_height)
             IN  <<v[1], v[2], v[3], RAdd(v[4], extra_height)>>
        ELSE LET extra_width == RSub(RMul(view_height, aspect_ratio), view_width)
             IN  <<v[1], v[2], RAdd(v[3], extra_width), v[4]>>

\* draw_map.py create_map: adjust the bounds to the figure's aspect ratio
\* (0 / 0 is nan, and nan > aspect_ratio is false)
AspectAdjust(v, aspect_ratio) ==
    LET view_width == RSub(v[3], v[1])
        view_height == RSub(v[4], v[2])
    IN  IF view_height # Zero /\ RLt(aspect_ratio, RDiv(view_width, view_height))
        THEN LET extra_height == RSub(RDiv(view_width, aspect_ratio), view_height)
             IN  <<v[1], RSub(v[2], RHalf(extra_height)),
                   v[3], RAdd(v[4], RHalf(extra_height))>>
        ELSE LET extra_width == RSub(RMul(view_height, aspect_ratio), view_width)
             IN  <<RSub(v[1], RHalf(extra_width)), v[2],
                   RAdd(v[3], RHalf(extra_width)), v[4]>>

Plain4(v) == <<Plain(v[1]), Plain(v[2]), Plain(v[3]), Plain(v[4])>>

\* draw_map.py create_map: filtered_neighbor_names, the neighbours drawn and
\* counted in the legend
LegacyNeighbors(geom, neighbor_names, config) ==
    IF LegacyTarget(geom, config) # geom
    THEN LET main_polygon == MaxByArea(geom.geoms)
             main_territory_neighbors ==
                SelectSeq(neighbor_names,
                          LAMBDA name : Borders(name, main_polygon, geom))
         IN  IF Len(main_territory_neighbors) < Len(neighbor_names)
             THEN main_territory_neighbors ELSE neighbor_names
    ELSE neighbor_names

\* draw_map.py create_map: the bounds set on the axes
LegacyView(geom, neighbor_names, config) ==
    IF /\ config.exclude_exclaves
       /\ geom.kind = "MultiPolygon"
       /\ RSum(Areas(geom)) = Zero
    THEN [NoView EXCEPT !.variant = "draw_map", !.config = config,
                        !.raised = "ZeroDivisionError"]
    ELSE LET target_geometry == LegacyTarget(geom, config)
             target_bounds == Bounds(target_geometry)
             invalid == \/ target_bounds[3] <= target_bounds[1]
                        \/ target_bounds[4] <= target_bounds[2]
             \* the except branch recomputes from target_country.total_bounds
             used == IF invalid THEN Bounds(geom) ELSE target_bounds
             square == LegacySquare(used, config)
         IN  [variant |-> "draw_map", raised |-> None, config |-> config,
              target_geom |-> target_geometry,
              neighbor_names |-> LegacyNeighbors(geom, neighbor_names, config),
              fallback |-> invalid,
              square |-> Plain4(square),
              bounds |-> Plain4(AspectAdjust(square, AspectRatio(config)))]

(* ------------------------ the frames of a request ---------------------- *)
\* The DataFrame objects alive in a request: the caller's target_country and
\* countries, and the copies the core makes of them.  A frame is given by
\* what the core reads from it or writes to it: the geometry of the target's
\* row and the columns of the table.
LoadedColumns == {"name", "iso_a3", "geometry", "display_iso", "display_name"}

NoFrame == [geometry |-> NoGeometry, columns |-> {}]

NoFrames ==
    [target_country |-> NoFrame, countries |-> NoFrame,
     filtered_country |-> NoFrame, countries_copy |-> NoFrame]

\* load_country_data: countries, and target_country = countries[name == ...]
LoadedFrames(g) ==
    [NoFrames EXCEPT
        !.target_country = [geometry |-> g, columns |-> LoadedColumns],
        !.countries = [geometry |-> g, columns |-> LoadedColumns]]

\* faulty variant: no .copy(), filtered_country is the caller's frame itself
FilterExclavesFramesInPlace(fr, territory_info) ==
    LET target_geom == fr.target_country.geometry
    IN  IF target_geom.kind = "MultiPolygon"
        THEN LET written == [fr.target_country EXCEPT
                                !.geometry = AsPolygon(MaxByArea(target_geom.geoms))]
             IN  [fr EXCEPT !.target_country = written,
                            !.filtered_country = written]
        ELSE fr

\* filter_exclaves: filtered_country = target_country.copy(), then the write
\* filtered_country.loc[index[0], "geometry"] = main_polygon
FilterExclavesFrames(fr, territory_info) ==
    LET target_geom == fr.target_country.geometry
    IN  IF target_geom.kind = "MultiPolygon"
        THEN [fr EXCEPT !.filtered_country =
                 [fr.target_country EXCEPT
                     !.geometry = AsPolygon(MaxByArea(target_geom.geoms))]]
        ELSE fr

\* maps/renderer.py create_map: countries_copy = countries.copy(), then the
\* write countries_copy["country_type"] = ...
CreateMapFrames(fr) ==
    [fr EXCEPT !.countries_copy =
        [fr.countries EXCEPT !.columns = @ \cup {"country_type"}]]

(* --------------------------- the command line -------------------------- *)
MaxCliFragments == 2

\* the countries of the databases the command line is run against
CliGeometries == {g \in Geometries : Len(g.geoms) <= MaxCliFragments}

\* no file; a file that cannot be read; a file with or without the country
Databases ==
    {NoDb, [exists |-> TRUE, fault |-> TRUE, row |-> NoGeometry]}
        \cup {HealthyDb(row) : row \in CliGeometries \cup {NoGeometry}}

NotCalled == [raised |-> "NotCalled", kind |-> None, value |-> <<>>]
ErrorMessage(text) == [raised |-> None, kind |-> "str", value |-> <<text>>]

\* find_neighbors.get_neighboring_countries(country_name, db_path): the
\* NeighborsResult, a list of neighbours or an error message
GetNeighboringCountries(db) ==
    IF ~db.exists THEN ErrorMessage("Database file not found")
    ELSE IF db.fault THEN ErrorMessage("Error")
    ELSE IF db.row = NoGeometry THEN ErrorMessage("Country not found")
    ELSE [raised |-> None, kind |-> "list", value |-> NeighborNames(db.row)]

NoLoaded ==
    [raised |-> None, neighbors_result |-> NotCalled,
     target_country |-> NoGeometry, neighbor_names |-> <<>>]

\* faulty variant: the returned error message is not recognised, and the
\* function goes on to its own query
LoadCountryDataUnchecked(db) ==
    IF ~db.exists THEN [NoLoaded EXCEPT !.raised = "FileNotFoundError"]
    ELSE LET neighbors_result == GetNeighboringCountries(db)
         IN  IF db.fault
             THEN [NoLoaded EXCEPT !.raised = "DatabaseError",
                                   !.neighbors_result = neighbors_result]
             ELSE IF db.row = NoGeometry
             THEN [NoLoaded EXCEPT !.raised = "ValueError",
                                   !.neighbors_result = neighbors_result]
             ELSE [raised |-> None, neighbors_result |-> neighbors_result,
                   target_country |-> db.row,
                   neighbor_names |-> neighbors_result.value]

\* maps/draw_map.py load_country_data(country_name, db_path, language)
LoadCountryData(db) ==
    IF ~db.exists THEN [NoLoaded EXCEPT !.raised = "FileNotFoundError"]
    ELSE LET neighbors_result == GetNeighboringCountries(db)
         IN  IF neighbors_result.raised # None
             THEN [NoLoaded EXCEPT !.raised = neighbors_result.raised,
                                   !.neighbors_result = neighbors_result]
             ELSE IF neighbors_result.kind = "str"
             THEN [NoLoaded EXCEPT !.raised = "ValueError",
                                   !.neighbors_result = neighbors_result]
             ELSE IF db.fault
             THEN [NoLoaded EXCEPT !.raised = "DatabaseError",
                                   !.neighbors_result = neighbors_result]
             ELSE IF db.row = NoGeometry
             THEN [NoLoaded EXCEPT !.raised = "ValueError",
                                   !.neighbors_result = neighbors_result]
             ELSE [raised |-> None, neighbors_result |-> neighbors_result,
                   target_country |-> db.row,
                   neighbor_names |-> neighbors_result.value]

\* CountryGeometryType.value
TerritoryTypeValue(geometry_type) ==
    CASE geometry_type = "CONTINUOUS" -> "continuous"
      [] geometry_type = "ISLAND_NATION" -> "island_nation"
      [] geometry_type = "HAS_EXCLAVE" -> "has_exclave"

\* get_country_territory_info(country_name, db_path, threshold): the
\* dictionary, or the exception of analyze_from_db
GetCountryTerritoryInfo(db, threshold, order) ==
    LET r == AnalyzeFromDb(db, threshold, order)
    IN  IF r.raised # None
        THEN [raised |-> r.raised, territory_type |-> None,
              has_exclaves |-> FALSE, is_island_nation |-> FALSE, result |-> r]
        ELSE [raised |-> None,
              territory_type |-> TerritoryTypeValue(r.geometry_type),
              has_exclaves |-> r.geometry_type = "HAS_EXCLAVE",
              is_island_nation |-> r.geometry_type = "ISLAND_NATION",
              result |-> r]

\* a title is the sequence of the pieces the f-string joins
BaseTitle(name) == <<name, " and Its Neighbors">>

\* faulty variant: the branches of island_nation and has_exclave are swapped
DecorateSwapped(base_title, territory_type) ==
    IF territory_type = "continuous"
    THEN Append(base_title, " (Continuous Territory)")
    ELSE IF territory_type = "island_nation"
    THEN Append(base_title, " (With Exclaves)")
    ELSE IF territory_type = "has_exclave"
    THEN Append(base_title, " (Island Nation)")
    ELSE base_title

\* the if / elif chain of generate_map (lines 320-325) and of
\* add_territory_info_to_map_config (lines 351-356)
Decorate(base_title, territory_type) ==
    IF territory_type = "continuous"
    THEN Append(base_title, " (Continuous Territory)")
    ELSE IF territory_type = "island_nation"
    THEN Append(base_title, " (Island Nation)")
    ELSE IF territory_type = "has_exclave"
    THEN Append(base_title, " (With Exclaves)")
    ELSE base_title

NoInfo ==
    [raised |-> "NotCalled", territory_type |-> None, has_exclaves |-> FALSE,
     is_island_nation |-> FALSE, result |-> NoResult]

\* the parsed command lines: maps <country> [--show-territory-info]
\* [--exclude-exclaves] [--target-percentage p], and maps analyze <country>
\* [--threshold t] [--json]
MapArgs ==
    [command : {"map"}, country : {"Israel", "Japan"},
     show_territory_info : BOOLEAN, exclude_exclaves : BOOLEAN,
     target_percentage : Fractions, json : {FALSE}, threshold : {NoThreshold}]

AnalyzeArgs ==
    [command : {"analyze"}, country : {"Israel", "Japan"},
     show_territory_info : {FALSE}, exclude_exclaves : {FALSE},
     target_percentage : {Zero}, json : BOOLEAN, threshold : Thresholds]

\* MapConfiguration(...) as generate_map builds it: figsize keeps its default
MapConfig(a) ==
    [target_percentage |-> a.target_percentage, figsize |-> <<10, 8>>,
     exclude_exclaves |-> a.exclude_exclaves,
     main_area_threshold |-> DefaultThreshold]

\* one call of filter_exclaves or create_map, with its arguments
Call(fn, target_country, territory_info, names, config) ==
    [fn |-> fn, target_country |-> target_country,
     territory_info |-> territory_info, neighbor_names |-> names,
     config |-> config]

\* what a request leaves behind
NoOutcome ==
    [geometry |-> NoGeometry, neighbor_names |-> <<>>,
     neighbors_result |-> NotCalled, result |-> NoResult,
     filtered |-> NoFiltered, view |-> NoView, frames |-> NoFrames,
     calls |-> <<>>, title |-> <<>>, stdout |-> <<>>, outcome |-> None]

\* generate_map: except Exception as e: print(...); return
GenerateMapExcept(o, e) ==
    [o EXCEPT !.stdout = Append(@, <<"Error creating map", e>>),
              !.outcome = "returned"]

\* analyze_territory: except Exception as e: print(...); sys.exit(1)
AnalyzeTerritoryExcept(o, e) ==
    [o EXCEPT !.stdout = Append(@, <<"Error analyzing territory", e>>),
              !.outcome = "SystemExit"]

\* faulty variant: the exclude_exclaves flag is not looked at
ShouldFilterAnyway(exclude_exclaves, info) ==
    /\ info # NoInfo
    /\ (info.has_exclaves \/ info.is_island_nation)

\* generate_map: exclude_exclaves and territory_info and
\* (territory_info["has_exclaves"] or territory_info["is_island_nation"])
ShouldFilter(exclude_exclaves, info) ==
    /\ exclude_exclaves
    /\ info # NoInfo
    /\ (info.has_exclaves \/ info.is_island_nation)

\* generate_map(args) against the database db; order is the outcome of argsort
\* in the territory analysis, savefig_fails whether create_map raises OSError
\* when it writes the image
GenerateMap(a, db, order, savefig_fails) ==
    LET loaded == LoadCountryData(db)
        o0 == [NoOutcome EXCEPT !.neighbors_result = loaded.neighbors_result]
    IN  IF loaded.raised # None THEN GenerateMapExcept(o0, loaded.raised)
        ELSE
        LET o1 == [o0 EXCEPT !.geometry = loaded.target_country,
                             !.frames = LoadedFrames(loaded.target_country),
                             !.neighbor_names = loaded.neighbor_names,
                             !.title = BaseTitle(a.country)]
            wanted == a.show_territory_info \/ a.exclude_exclaves
            info == IF wanted
                    THEN GetCountryTerritoryInfo(db, DefaultThreshold, order)
                    ELSE NoInfo
        IN  IF wanted /\ info.raised # None
            THEN GenerateMapExcept([o1 EXCEPT !.result = info.result], info.raised)
            ELSE
            LET title == IF a.show_territory_info
                         THEN Decorate(BaseTitle(a.country), info.territory_type)
                         ELSE BaseTitle(a.country)
                config == MapConfig(a)
                filters == ShouldFilter(a.exclude_exclaves, info)
                kept == IF filters
                        THEN FilterExclaves(loaded.target_country, info.result)
                        ELSE NoFiltered
                target_country == IF filters THEN kept.country
                                  ELSE loaded.target_country
                o2 == [o1 EXCEPT
                         !.result = info.result,
                         !.title = title,
                         !.filtered = kept,
                         !.frames = IF filters
                                    THEN FilterExclavesFrames(@, info.result)
                                    ELSE @,
                         !.calls =
                            (IF filters
                             THEN <<Call("filter_exclaves", loaded.target_country,
                                         info.result, <<>>, NoConfig)>>
                             ELSE <<>>)
                            \o <<Call("create_map", target_country, NoResult,
                                      loaded.neighbor_names, config)>>,
                         !.stdout = IF filters
                                    THEN <<<<"Excluding exclaves", "main landmass">>>>
                                    ELSE <<>>]
            IN  IF savefig_fails
                THEN GenerateMapExcept(
                        [o2 EXCEPT !.view = [NoView EXCEPT !.variant = "renderer",
                                                           !.raised = "OSError",
                                                           !.config = config]],
                        "OSError")
                ELSE [o2 EXCEPT
                        !.view = RendererView(target_country,
                                              loaded.neighbor_names, config),
                        !.frames = CreateMapFrames(@),
                        !.stdout = Append(@, <<"Successfully created map", a.country>>),
                        !.outcome = "returned"]

\* analyze_territory(args) against the database db
AnalyzeTerritory(a, db, order) ==
    LET r == IF a.json
             THEN GetCountryTerritoryInfo(db, a.threshold, order).result
             ELSE AnalyzeFromDb(db, a.threshold, order)
        o == [NoOutcome EXCEPT !.result = r,
                               !.geometry = LoadCountryGeometry(db).geometry]
    IN  IF r.raised # None THEN AnalyzeTerritoryExcept(o, r.raised)
        ELSE [o EXCEPT
                !.stdout = <<<<IF a.json THEN "territory_type" ELSE "Territory Type",
                               TerritoryTypeValue(r.geometry_type)>>>>,
                !.outcome = "returned"]

\* the orders argsort may return in the analysis of the country's row
OrdersOf(db) ==
    IF db.row = NoGeometry THEN {<<>>} ELSE Argsort(Areas(db.row))

\* no list of countries is being run; no call of get_countries_df was made
NoBatch ==
    [program |-> None, countries |-> <<>>, db |-> NoDb, threshold |-> NoThreshold,
     exclude_exclaves |-> FALSE, entered |-> FALSE, done |-> 0, raised |-> None,
     log |-> <<>>, saved |-> <<>>]
NoFile == [exists |-> FALSE, rows |-> <<>>]
NoCache == [build |-> None, dbs |-> <<>>, file |-> NoFile, calls |-> <<>>, open |-> 0]

(* ------------------------------ the state ------------------------------ *)
VARIABLES
    pc,                   \* where the current request stands
    geometry,             \* the target country's geometry, as loaded
    main_area_threshold,  \* TerritoryAnalyzer.main_area_threshold
    result,               \* the TerritoryAnalysisResult of analyze
    filtered,             \* what filter_exclaves returned
    view,                 \* what create_map computed and set on the axes
    neighbor_names,       \* the neighbour list the caller holds
    country_name,         \* the country the last call or request names
    watched,              \* the first analyze call on this analyzer
    sort_ties,            \* how this build's argsort orders equal areas
    args,                 \* the parsed command line of the request
    db,                   \* the database file behind db_path
    calls,                \* the calls of filter_exclaves and create_map
    title,                \* config.title
    stdout,               \* what the request printed
    outcome,              \* how the request or call ended
    neighbors_result,     \* what get_neighboring_countries returned
    frames,               \* the DataFrame objects of the request
    batch,                \* a run over a list of countries
    cache                 \* the cache file of get_countries_df and its use

analyzer_vars == <<country_name, watched, sort_ties>>
cli_vars == <<args, db, calls, title, stdout, outcome, neighbors_result>>

run_vars == <<batch, cache>>

vars == <<pc, geometry, main_area_threshold, result, filtered, view,
          neighbor_names, analyzer_vars, cli_vars, frames, run_vars>>

NoWatched ==
    [country_name |-> None, geometry |-> NoGeometry, result |-> NoResult,
     later_calls |-> 0]

NoArgs ==
    [command |-> None, show_territory_info |-> FALSE, exclude_exclaves |-> FALSE,
     target_percentage |-> Zero, json |-> FALSE, threshold |-> NoThreshold]

\* a process that serves no request and has made no call of the analyzer
NoRequest ==
    /\ country_name = None
    /\ watched = NoWatched
    /\ sort_ties = None
    /\ args = NoArgs
    /\ db = NoDb
    /\ calls = <<>>
    /\ title = <<>>
    /\ stdout = <<>>
    /\ outcome = None
    /\ neighbors_result = NotCalled
    /\ frames = NoFrames
    /\ batch = NoBatch
    /\ cache = NoCache

Init ==
    /\ pc = "idle"
    /\ geometry = NoGeometry
    /\ main_area_threshold = NoThreshold
    /\ result = NoResult
    /\ filtered = NoFiltered
    /\ view = NoView
    /\ neighbor_names = <<>>
    /\ NoRequest

\* load_country_geometry / load_country_data: the country's geometry
load_country_geometry ==
    /\ pc = "idle"
    /\ \E g \in Geometries :
          /\ geometry' = g
          /\ neighbor_names' = NeighborNames(g)
          /\ frames' = LoadedFrames(g)
    /\ pc' = "loaded"
    /\ UNCHANGED <<main_area_threshold, result, filtered, view>>
    /\ UNCHANGED <<analyzer_vars, cli_vars, run_vars>>

\* TerritoryAnalyzer(main_area_threshold=t)
TerritoryAnalyzer_init ==
    /\ pc = "loaded"
    /\ main_area_threshold = NoThreshold
    /\ \E t \in Thresholds : main_area_threshold' = t
    /\ UNCHANGED <<pc, geometry, result, filtered, view, neighbor_names, frames>>
    /\ UNCHANGED <<analyzer_vars, cli_vars, run_vars>>

\* TerritoryAnalyzer.analyze(country_name, geometry)
analyze ==
    /\ pc = "loaded"
    /\ main_area_threshold # NoThreshold
    /\ \/ /\ geometry.kind = "Polygon"
          /\ result' = AnalyzePolygon(geometry)
       \/ /\ geometry.kind = "MultiPolygon"
          /\ \E order \in Argsort(Areas(geometry)) :
                result' = AnalyzeMulti(geometry, main_area_threshold, order)
    /\ pc' = "analyzed"
    \* analyze builds its own lists and assigns to none of its arguments
    /\ UNCHANGED <<geometry, main_area_threshold, filtered, view, neighbor_names,
                   frames>>
    /\ UNCHANGED <<analyzer_vars, cli_vars, run_vars>>

\* filter_exclaves(target_country, territory_info), as generate_map calls it:
\* territory_info comes from an analysis with the default threshold
filter_exclaves ==
    /\ pc = "analyzed"
    /\ main_area_threshold = DefaultThreshold
    /\ result.raised = None
    /\ filtered' = FilterExclaves(geometry, result)
    /\ frames' = FilterExclavesFrames(frames, result)
    /\ pc' = "filtered"
    /\ UNCHANGED <<geometry, main_area_threshold, result, view, neighbor_names>>
    /\ UNCHANGED <<analyzer_vars, cli_vars, run_vars>>

\* the frame create_map is given: the filtered country if there is one
TargetCountry == IF filtered # NoFiltered THEN filtered.country ELSE geometry

\* maps/renderer.py create_map(countries, target_country, neighbor_names, config)
create_map ==
    /\ pc \in {"loaded", "filtered"}
    /\ pc = "loaded" => main_area_threshold = NoThreshold
    /\ \E config \in Configs :
          /\ pc = "filtered" => config.exclude_exclaves
          /\ view' = RendererView(TargetCountry, neighbor_names, config)
    /\ frames' = CreateMapFrames(frames)
    /\ pc' = "drawn"
    /\ UNCHANGED <<geometry, main_area_threshold, result, filtered, neighbor_names>>
    /\ UNCHANGED <<analyzer_vars, cli_vars, run_vars>>

\* draw_map.py create_map(countries, target_country, neighbor_names, config)
draw_map_create_map ==
    /\ pc = "loaded"
    /\ main_area_threshold = NoThreshold
    /\ \E config \in Configs : view' = LegacyView(geometry, neighbor_names, config)
    /\ pc' = "drawn"
    \* neighbor_names.copy() and countries[...] are new objects; no write to
    \* a frame
    /\ UNCHANGED <<geometry, main_area_threshold, result, filtered, neighbor_names,
                   frames>>
    /\ UNCHANGED <<analyzer_vars, cli_vars, run_vars>>

\* the request is over; the next one starts from scratch
finish ==
    /\ pc \in {"analyzed", "filtered", "drawn"}
    /\ pc' = "idle"
    /\ geometry' = NoGeometry
    /\ main_area_threshold' = NoThreshold
    /\ result' = NoResult
    /\ filtered' = NoFiltered
    /\ view' = NoView
    /\ neighbor_names' = <<>>
    /\ frames' = NoFrames
    /\ UNCHANGED <<analyzer_vars, cli_vars, run_vars>>

Next ==
    \/ load_country_geometry
    \/ TerritoryAnalyzer_init
    \/ analyze
    \/ filter_exclaves
    \/ create_map
    \/ draw_map_create_map
    \/ finish

Spec == Init /\ [][Next]_vars

(* ----------------- an analyzer that is called repeatedly ---------------- *)
CountryNames == {"Israel", "Japan"}
MaxLaterCalls == 2

\* TerritoryAnalyzer(main_area_threshold=t), on one build of numpy
InitAnalyzer ==
    /\ pc = "constructed"
    /\ main_area_threshold \in Thresholds
    /\ sort_ties \in ArgsortTies
    /\ geometry = NoGeometry
    /\ result = NoResult
    /\ filtered = NoFiltered
    /\ view = NoView
    /\ neighbor_names = <<>>
    /\ country_name = None
    /\ watched = NoWatched
    /\ args = NoArgs
    /\ db = NoDb
    /\ calls = <<>>
    /\ title = <<>>
    /\ stdout = <<>>
    /\ outcome = None
    /\ neighbors_result = NotCalled
    /\ frames = NoFrames
    /\ batch = NoBatch
    /\ cache = NoCache

\* faulty variant: max_distance is kept on the analyzer and not reset
AnalyzerAnalyzeAccumulating(name, g) ==
    LET r == Analyze(g, main_area_threshold, ArgsortOf(Areas(g), sort_ties))
    IN  IF r.raised = None /\ result.raised = None
        THEN [r EXCEPT !.max_distance_between_polygons =
                          RMax(result.max_distance_between_polygons, @)]
        ELSE r

\* self.analyze(country_name, geometry): what the call returns or raises
AnalyzerAnalyze(name, g) ==
    Analyze(g, main_area_threshold, ArgsortOf(Areas(g), sort_ties))

\* the first call is remembered; the calls after it are counted
Watch(name, g, r) ==
    IF watched = NoWatched
    THEN [country_name |-> name, geometry |-> g, result |-> r, later_calls |-> 0]
    ELSE [watched EXCEPT !.later_calls =
                            IF @ < MaxLaterCalls THEN @ + 1 ELSE @]

\* analyzer.analyze(country_name, geometry), with any geometry object
TerritoryAnalyzer_analyze ==
    /\ pc \in {"constructed", "called"}
    /\ \E name \in CountryNames, g \in AnalyzerGeometries :
          LET r == AnalyzerAnalyze(name, g)
          IN  /\ country_name' = name
              /\ geometry' = g
              /\ result' = r
              /\ watched' = Watch(name, g, r)
    /\ db' = NoDb
    /\ pc' = "called"
    /\ UNCHANGED <<main_area_threshold, filtered, view, neighbor_names,
                   sort_ties, args, calls, title, stdout, outcome,
                   neighbors_result, frames, run_vars>>

\* analyzer.analyze_from_db(country_name, db_path): load_country_geometry,
\* then analyze when the load returned
TerritoryAnalyzer_analyze_from_db ==
    /\ pc \in {"constructed", "called"}
    /\ \E name \in CountryNames, row \in AnalyzerGeometries \cup {NoGeometry} :
          LET loaded == LoadCountryGeometry(HealthyDb(row))
          IN  /\ country_name' = name
              /\ db' = HealthyDb(row)
              /\ geometry' = loaded.geometry
              /\ IF loaded.raised # None
                 THEN /\ result' = Raised(loaded.raised)
                      /\ UNCHANGED watched
                 ELSE LET r == AnalyzerAnalyze(name, loaded.geometry)
                      IN  /\ result' = r
                          /\ watched' = Watch(name, loaded.geometry, r)
    /\ pc' = "called"
    /\ UNCHANGED <<main_area_threshold, filtered, view, neighbor_names,
                   sort_ties, args, calls, title, stdout, outcome,
                   neighbors_result, frames, run_vars>>

NextAnalyzer ==
    \/ TerritoryAnalyzer_analyze
    \/ TerritoryAnalyzer_analyze_from_db

SpecAnalyzer == InitAnalyzer /\ [][NextAnalyzer]_vars

(* ------------------- requests on the command line ---------------------- *)
\* the state after a request or call that left the outcome o
Leaves(o) ==
    /\ geometry' = o.geometry
    /\ neighbor_names' = o.neighbor_names
    /\ neighbors_result' = o.neighbors_result
    /\ result' = o.result
    /\ filtered' = o.filtered
    /\ view' = o.view
    /\ frames' = o.frames
    /\ calls' = o.calls
    /\ title' = o.title
    /\ stdout' = o.stdout
    /\ outcome' = o.outcome

\* main() with the map command: generate_map(parsed_args)
generate_map ==
    /\ pc = "idle"
    /\ \E a \in MapArgs, d \in Databases, savefig_fails \in BOOLEAN :
          \E order \in OrdersOf(d) :
             /\ args' = a
             /\ db' = d
             /\ country_name' = a.country
             /\ Leaves(GenerateMap(a, d, order, savefig_fails))
    /\ pc' = "generate_map"
    /\ UNCHANGED <<main_area_threshold, watched, sort_ties, run_vars>>

\* main() with the analyze command: analyze_territory(parsed_args)
analyze_territory ==
    /\ pc = "idle"
    /\ \E a \in AnalyzeArgs, d \in Databases :
          \E order \in OrdersOf(d) :
             /\ args' = a
             /\ db' = d
             /\ country_name' = a.country
             /\ Leaves(AnalyzeTerritory(a, d, order))
    /\ pc' = "analyze_territory"
    /\ UNCHANGED <<main_area_threshold, watched, sort_ties, run_vars>>

\* find_neighbors.get_neighboring_countries(country_name, db_path)
get_neighboring_countries ==
    /\ pc = "idle"
    /\ \E name \in CountryNames, d \in Databases :
          LET r == GetNeighboringCountries(d)
          IN  /\ db' = d
              /\ country_name' = name
              /\ Leaves([NoOutcome EXCEPT
                            !.neighbors_result = r,
                            !.outcome = IF r.raised # None THEN r.raised
                                        ELSE "returned"])
    /\ pc' = "get_neighboring_countries"
    /\ UNCHANGED <<main_area_threshold, watched, sort_ties, args, run_vars>>

\* maps/draw_map.py load_country_data(country_name, db_path)
load_country_data ==
    /\ pc = "idle"
    /\ \E name \in CountryNames, d \in Databases :
          LET loaded == LoadCountryData(d)
          IN  /\ db' = d
              /\ country_name' = name
              /\ Leaves([NoOutcome EXCEPT
                            !.neighbors_result = loaded.neighbors_result,
                            !.geometry = loaded.target_country,
                            !.neighbor_names = loaded.neighbor_names,
                            !.outcome = IF loaded.raised # None THEN loaded.raised
                                        ELSE "returned"])
    /\ pc' = "load_country_data"
    /\ UNCHANGED <<main_area_threshold, watched, sort_ties, args, run_vars>>

\* add_territory_info_to_map_config(map_config, country_name, db_path), for a
\* map_config with the title of generate_map or with no title
add_territory_info_to_map_config ==
    /\ pc = "idle"
    /\ \E name \in CountryNames, d \in Databases, has_title \in BOOLEAN :
          \E order \in OrdersOf(d) :
             LET info == GetCountryTerritoryInfo(d, DefaultThreshold, order)
                 base_title == IF has_title THEN BaseTitle(name) ELSE <<name>>
             IN  /\ db' = d
                 /\ country_name' = name
                 /\ Leaves([NoOutcome EXCEPT
                               !.result = info.result,
                               !.geometry = LoadCountryGeometry(d).geometry,
                               !.title = IF info.raised # None THEN <<>>
                                         ELSE Decorate(base_title, info.territory_type),
                               !.outcome = IF info.raised # None THEN info.raised
                                           ELSE "returned"])
    /\ pc' = "add_territory_info_to_map_config"
    /\ UNCHANGED <<main_area_threshold, watched, sort_ties, args, run_vars>>

\* the process ends; the next one starts from scratch
exit ==
    /\ pc \in {"generate_map", "analyze_territory", "get_neighboring_countries",
               "load_country_data", "add_territory_info_to_map_config"}
    /\ pc' = "idle"
    /\ args' = NoArgs
    /\ db' = NoDb
    /\ country_name' = None
    /\ Leaves(NoOutcome)
    /\ UNCHANGED <<main_area_threshold, watched, sort_ties, run_vars>>

NextCli ==
    \/ generate_map
    \/ analyze_territory
    \/ get_neighboring_countries
    \/ load_country_data
    \/ add_territory_info_to_map_config
    \/ exit

SpecCli == Init /\ [][NextCli]_vars

(* ----------------------- runs over a list of countries ------------------ *)
MaxBatch == 2

\* the lists of countries a run is given
RECURSIVE ListsUpTo(_)
ListsUpTo(n) ==
    IF n = 0 THEN {<<>>}
    ELSE LET shorter == ListsUpTo(n - 1)
         IN  shorter \cup {Append(l, c) : l \in {x \in shorter : Len(x) = n - 1},
                                          c \in CountryNames}
CountryLists == ListsUpTo(MaxBatch)

\* the rows of the database of a run: no row, a Polygon, a MultiPolygon with
\* a dominant fragment, a MultiPolygon of area 0
BatchRows ==
    {NoGeometry,
     [kind |-> "Polygon", geoms |-> <<Fragment(1, <<1, 1>>)>>],
     [kind |-> "MultiPolygon",
      geoms |-> <<Fragment(1, <<2, 2>>), Fragment(2, <<1, 1>>)>>],
     [kind |-> "MultiPolygon",
      geoms |-> <<Fragment(1, <<0, 0>>), Fragment(2, <<0, 0>>)>>]}

\* the database file of a run: missing, unreadable, or with a row or none for
\* every country
BatchDatabases ==
    {[exists |-> FALSE, fault |-> FALSE, rows |-> [c \in CountryNames |-> NoGeometry]],
     [exists |-> TRUE, fault |-> TRUE, rows |-> [c \in CountryNames |-> NoGeometry]]}
        \cup {[exists |-> TRUE, fault |-> FALSE, rows |-> rows] :
                 rows \in [CountryNames -> BatchRows]}

\* what a query for the country name finds in the database file
DbFor(file, name) ==
    [exists |-> file.exists, fault |-> file.fault, row |-> file.rows[name]]

\* --threshold: the default, and a value outside [0, 1]
BatchThresholds == {DefaultThreshold, Frac(3, 2)}

\* MapConfiguration(...) as create_enhanced_map builds it: figsize keeps the
\* default of draw_map.py
EnhancedMapConfig(polygon_count, exclude_exclaves, threshold) ==
    [target_percentage |-> IF polygon_count > 1 THEN Frac(3, 5) ELSE Frac(2, 5),
     figsize |-> <<12, 10>>, exclude_exclaves |-> exclude_exclaves,
     main_area_threshold |-> threshold]

\* the lines a report of n polygons adds after its head lines
ReportLines(name, n, labels) ==
    IF n > 1
    THEN [k \in 1 .. Len(labels) |-> <<"INFO", labels[k], name>>]
            \o [k \in 1 .. n |-> <<"INFO", "Territory", name, k>>]
    ELSE <<>>

\* create_enhanced_map after its two loads: info is what
\* get_country_territory_info left, loaded what load_country_data left, v the
\* view of create_map
EnhancedMapFrom(name, info, loaded, v, savefig_fails) ==
    IF info.raised # None
    THEN [raised |-> info.raised, log |-> <<>>, result |-> info.result,
          loaded |-> NoLoaded, title |-> <<>>, view |-> NoView, saved |-> FALSE]
    ELSE IF loaded.raised # None
    THEN [raised |-> loaded.raised, log |-> <<<<"INFO", "Analyzed", name>>>>,
          result |-> info.result, loaded |-> loaded, title |-> <<>>,
          view |-> NoView, saved |-> FALSE]
    ELSE IF v.raised # None \/ savefig_fails
    THEN [raised |-> IF v.raised # None THEN v.raised ELSE "OSError",
          log |-> <<<<"INFO", "Analyzed", name>>>>,
          result |-> info.result, loaded |-> loaded,
          title |-> Decorate(<<name>>, info.territory_type),
          view |-> [NoView EXCEPT !.variant = "draw_map",
                                  !.raised = IF v.raised # None THEN v.raised
                                             ELSE "OSError",
                                  !.config = v.config],
          saved |-> FALSE]
    ELSE [raised |-> None,
          log |-> <<<<"INFO", "Analyzed", name>>,
                    <<"INFO", "Country", name>>,
                    <<"INFO", "Territory Type", name>>,
                    <<"INFO", "Polygon Count", name>>,
                    <<"INFO", "Main Area Percentage", name>>>>
                  \o ReportLines(name, info.result.polygon_count,
                       <<"Maximum Distance Between Polygons", "Territories">>)
                  \o <<<<"INFO", "Map saved to", name>>>>,
          result |-> info.result, loaded |-> loaded,
          title |-> Decorate(<<name>>, info.territory_type),
          view |-> v, saved |-> TRUE]

\* the view create_map computes for the loaded country; no view when a load
\* failed
EnhancedView(info, loaded, exclude_exclaves, threshold) ==
    IF info.raised # None \/ loaded.raised # None THEN NoView
    ELSE LegacyView(loaded.target_country, loaded.neighbor_names,
                    EnhancedMapConfig(info.result.polygon_count,
                                      exclude_exclaves, threshold))

\* create_enhanced_map(country_name, db_path, output_path, threshold,
\* exclude_exclaves): the exception that leaves it, the lines it logged and
\* what it computed
CreateEnhancedMapFrom(name, info, loaded, threshold, exclude_exclaves, savefig_fails) ==
    EnhancedMapFrom(name, info, loaded,
                    EnhancedView(info, loaded, exclude_exclaves, threshold),
                    savefig_fails)

CreateEnhancedMap(name, d, threshold, exclude_exclaves, order, savefig_fails) ==
    CreateEnhancedMapFrom(name, GetCountryTerritoryInfo(d, threshold, order),
                          LoadCountryData(d), threshold, exclude_exclaves,
                          savefig_fails)

\* faulty variant: the exception of create_enhanced_map leaves the loop
MainIterationUncaught(b, name, e) ==
    IF e.raised # None
    THEN [b EXCEPT !.log = @ \o <<<<"INFO", "Processing", name>>>> \o e.log,
                   !.raised = e.raised]
    ELSE [b EXCEPT !.log = @ \o <<<<"INFO", "Processing", name>>>> \o e.log,
                   !.saved = Append(@, name),
                   !.done = @ + 1]

\* example_territory_map.main: one pass of "for country_name in countries",
\* e being what create_enhanced_map left
MainIteration(b, name, e) ==
    [b EXCEPT
       !.log = @ \o <<<<"INFO", "Processing", name>>>> \o e.log
                 \o (IF e.raised # None
                     THEN <<<<"ERROR", "Error processing", name, e.raised>>>>
                     ELSE <<>>),
       !.saved = IF e.saved THEN Append(@, name) ELSE @,
       !.done = @ + 1]

\* analyze_countries: one pass of "for country_name in countries", r being
\* what analyze_from_db returned or raised
AnalyzeIteration(b, name, r) ==
    [b EXCEPT
       !.log = @ \o <<<<"INFO", "Analyzing", name>>>>
                 \o (IF r.raised # None
                     THEN <<<<"ERROR", "Error analyzing", name, r.raised>>>>
                     ELSE <<<<"INFO", "Country", name>>,
                            <<"INFO", "Classification", name>>,
                            <<"INFO", "Total area", name>>,
                            <<"INFO", "Number of polygons", name>>>>
                          \o ReportLines(name, r.polygon_count,
                               <<"Largest polygon",
                                 "Max distance between polygons", "Territories">>)
                          \o <<<<"INFO", "=====", name>>>>),
       !.done = @ + 1]

\* example_territory_map.main up to the loop: the checks that return early
example_territory_map_main ==
    /\ pc = "idle"
    /\ \E file \in BatchDatabases, countries \in CountryLists \ {<<>>},
          threshold \in BatchThresholds, include_exclaves \in BOOLEAN :
          LET b == [NoBatch EXCEPT !.program = "example_territory_map",
                                   !.db = file, !.threshold = threshold,
                                   !.exclude_exclaves = ~include_exclaves]
          IN  IF ~file.exists
              THEN /\ batch' = [b EXCEPT !.log =
                                   <<<<"ERROR", "Database file not found">>>>]
                   /\ pc' = "returned"
              ELSE IF ~(RLe(Zero, threshold) /\ RLe(threshold, Num(1)))
              THEN /\ batch' = [b EXCEPT !.countries = countries, !.log =
                                   <<<<"ERROR", "Threshold must be between 0.0 and 1.0">>>>]
                   /\ pc' = "returned"
              ELSE /\ batch' = [b EXCEPT !.countries = countries, !.entered = TRUE]
                   /\ pc' = "loop"
    /\ UNCHANGED <<geometry, main_area_threshold, result, filtered, view,
                   neighbor_names, analyzer_vars, cli_vars, frames, cache>>

\* the state after a pass of example_territory_map.main in which
\* create_enhanced_map left e
MainPass(name, e) ==
    /\ batch' = MainIteration(batch, name, e)
    /\ result' = e.result
    /\ geometry' = e.loaded.target_country
    /\ neighbor_names' = e.loaded.neighbor_names
    /\ neighbors_result' = e.loaded.neighbors_result
    /\ title' = e.title
    /\ view' = e.view

\* the state after a pass of analyze_countries in which analyze_from_db
\* returned or raised r
AnalyzePass(name, r) ==
    /\ batch' = AnalyzeIteration(batch, name, r)
    /\ result' = r

\* the loop body of example_territory_map.main for the next country
example_territory_map_iteration ==
    /\ pc = "loop"
    /\ batch.program = "example_territory_map"
    /\ batch.raised = None
    /\ batch.done < Len(batch.countries)
    /\ LET name == batch.countries[batch.done + 1]
           d == DbFor(batch.db, name)
       IN  \E order \in OrdersOf(d), savefig_fails \in BOOLEAN :
              /\ country_name' = name
              /\ db' = d
              /\ main_area_threshold' = batch.threshold
              /\ MainPass(name, CreateEnhancedMap(name, d, batch.threshold,
                                                  batch.exclude_exclaves,
                                                  order, savefig_fails))
    /\ UNCHANGED <<pc, filtered, watched, sort_ties, args, calls, stdout,
                   outcome, frames, cache>>

\* analyze_countries(countries, db_path, threshold) up to the loop
analyze_countries ==
    /\ pc = "idle"
    /\ \E file \in BatchDatabases, countries \in CountryLists,
          threshold \in BatchThresholds :
          /\ batch' = [NoBatch EXCEPT !.program = "analyze_countries",
                                      !.db = file, !.threshold = threshold,
                                      !.countries = countries, !.entered = TRUE,
                                      !.log = <<<<"INFO", "Using main area threshold">>>>]
          /\ main_area_threshold' = threshold
    /\ pc' = "loop"
    /\ UNCHANGED <<geometry, result, filtered, view, neighbor_names,
                   analyzer_vars, cli_vars, frames, cache>>

\* the loop body of analyze_countries for the next country
analyze_countries_iteration ==
    /\ pc = "loop"
    /\ batch.program = "analyze_countries"
    /\ batch.raised = None
    /\ batch.done < Len(batch.countries)
    /\ LET name == batch.countries[batch.done + 1]
           d == DbFor(batch.db, name)
       IN  \E order \in OrdersOf(d) :
              /\ country_name' = name
              /\ db' = d
              /\ geometry' = LoadCountryGeometry(d).geometry
              /\ AnalyzePass(name, AnalyzeFromDb(d, main_area_threshold, order))
    /\ UNCHANGED <<pc, main_area_threshold, filtered, view, neighbor_names,
                   watched, sort_ties, args, calls, title, stdout, outcome,
                   neighbors_result, frames, cache>>

\* the loop is left: the list is exhausted, or an exception left the body
loop_exit ==
    /\ pc = "loop"
    /\ batch.done = Len(batch.countries) \/ batch.raised # None
    /\ pc' = "returned"
    /\ UNCHANGED <<geometry, main_area_threshold, result, filtered, view,
                   neighbor_names, analyzer_vars, cli_vars, frames, run_vars>>

NextBatch ==
    \/ example_territory_map_main
    \/ example_territory_map_iteration
    \/ analyze_countries
    \/ analyze_countries_iteration
    \/ loop_exit

SpecBatch == Init /\ [][NextBatch]_vars

(* ------------------- the cache file of get_countries_df ---------------- *)
MaxCacheCalls == 3

\* db_path: two database files
DbPaths == {"a.sqlite", "b.sqlite"}

\* a geometry without coordinates (is_empty); bool() of it is False
EmptyGeometry == [kind |-> "Polygon", geoms |-> <<>>]

\* geometry.wkb, and wkb.loads on bytes; NULL in a column of bytes
Wkb(g) == [null |-> FALSE, wkb |-> g]
WkbLoads(data) == data.wkb
Null == [null |-> TRUE, wkb |-> NoGeometry]

\* the GEOMETRY column of a row: NULL, or the WKB of a geometry
Blobs ==
    {Null, Wkb(EmptyGeometry),
     Wkb([kind |-> "Polygon", geoms |-> <<Fragment(1, <<1, 1>>)>>])}

\* ne_10m_admin_0_countries with a row for Israel and a row for Japan
TableOf(blobs) ==
    <<[ogc_fid |-> 1, name |-> "Israel", iso_a3 |-> "ISR", GEOMETRY |-> blobs[1]],
      [ogc_fid |-> 2, name |-> "Japan", iso_a3 |-> "-99", GEOMETRY |-> blobs[2]]>>

\* a database file: missing, without the table, or with the table
DbFiles ==
    {[exists |-> FALSE, fault |-> FALSE, table |-> <<>>],
     [exists |-> TRUE, fault |-> TRUE, table |-> <<>>]}
        \cup {[exists |-> TRUE, fault |-> FALSE, table |-> TableOf(blobs)] :
                 blobs \in [1 .. 2 -> Blobs]}

\* wkb.loads(None): a TypeError in shapely 1, None in shapely 2
Builds == {"loads(None) raises", "loads(None) is None"}

\* lambda x: wkb.loads(x) if x else None (None is NoGeometry)
FromDb(x) == IF x # Null THEN WkbLoads(x) ELSE NoGeometry

\* lambda x: x.wkb if x else None
ToCache(x) == IF x # NoGeometry /\ x # EmptyGeometry THEN Wkb(x) ELSE Null

\* lambda x: "N/A" if x == "-99" or not x else x
DisplayIso(x) == IF x = "-99" \/ x = "" THEN "N/A" ELSE x

\* the frame read from the table: geometry converted, GEOMETRY dropped,
\* display_iso added
ReadDb(table) ==
    [i \in 1 .. Len(table) |->
        [ogc_fid |-> table[i].ogc_fid, name |-> table[i].name,
         iso_a3 |-> table[i].iso_a3, geometry |-> FromDb(table[i].GEOMETRY),
         display_iso |-> DisplayIso(table[i].iso_a3)]]

\* df_to_cache: the frame with its geometries as WKB
ToParquet(df) ==
    [i \in 1 .. Len(df) |-> [df[i] EXCEPT !.geometry = ToCache(@)]]

\* pd.read_parquet(cache_path) with df["geometry"].apply(wkb.loads), where
\* wkb.loads returns for every row
ReadParquet(file) ==
    [i \in 1 .. Len(file.rows) |->
        [file.rows[i] EXCEPT !.geometry = IF @ = Null THEN NoGeometry
                                          ELSE WkbLoads(@)]]

\* one call of get_countries_df
CacheCall(db_path, cached, connected, raised, returned) ==
    [db_path |-> db_path, cached |-> cached, connected |-> connected,
     raised |-> raised, returned |-> returned]

\* get_countries_df(db_path), the default cache_path: the cache file, the
\* database files and the connections after the call
GetCountriesDf(c, db_path) ==
    IF c.file.exists
    THEN IF /\ c.build = "loads(None) raises"
            /\ \E i \in 1 .. Len(c.file.rows) : c.file.rows[i].geometry = Null
         THEN [c EXCEPT !.calls = Append(@,
                  CacheCall(db_path, TRUE, FALSE, "TypeError", <<>>))]
         ELSE [c EXCEPT !.calls = Append(@,
                  CacheCall(db_path, TRUE, FALSE, None,
                            ReadParquet(c.file)))]
    ELSE IF ~c.dbs[db_path].exists \/ c.dbs[db_path].fault
    \* sqlite3.connect creates a missing file; read_sql finds no table, and
    \* the connection stays open
    THEN [c EXCEPT !.dbs[db_path] = [exists |-> TRUE, fault |-> TRUE, table |-> <<>>],
                   !.open = @ + 1,
                   !.calls = Append(@,
                      CacheCall(db_path, FALSE, TRUE, "DatabaseError", <<>>))]
    ELSE [c EXCEPT !.file = [exists |-> TRUE,
                             rows |-> ToParquet(ReadDb(c.dbs[db_path].table))],
                   !.calls = Append(@,
                      CacheCall(db_path, FALSE, TRUE, None,
                                ReadDb(c.dbs[db_path].table)))]

\* a process with no cache file, two database files and one build of shapely
InitCache ==
    /\ pc = "idle"
    /\ geometry = NoGeometry
    /\ main_area_threshold = NoThreshold
    /\ result = NoResult
    /\ filtered = NoFiltered
    /\ view = NoView
    /\ neighbor_names = <<>>
    /\ country_name = None
    /\ watched = NoWatched
    /\ sort_ties = None
    /\ args = NoArgs
    /\ db = NoDb
    /\ calls = <<>>
    /\ title = <<>>
    /\ stdout = <<>>
    /\ outcome = None
    /\ neighbors_result = NotCalled
    /\ frames = NoFrames
    /\ batch = NoBatch
    /\ \E build \in Builds, dbs \in [DbPaths -> DbFiles] :
          cache = [NoCache EXCEPT !.build = build, !.dbs = dbs]

\* get_countries_df(db_path)
get_countries_df ==
    /\ Len(cache.calls) < MaxCacheCalls
    /\ \E db_path \in DbPaths : cache' = GetCountriesDf(cache, db_path)
    /\ UNCHANGED <<pc, geometry, main_area_threshold, result, filtered, view,
                   neighbor_names, analyzer_vars, cli_vars, frames, batch>>

\* get_neighboring_countries(country_name, db_path) up to its frame: the
\* check of db_path, then get_countries_df(db_path) inside try / except
find_neighbors_get_neighboring_countries ==
    /\ Len(cache.calls) < MaxCacheCalls
    /\ \E name \in CountryNames, db_path \in DbPaths :
          /\ country_name' = name
          /\ IF ~cache.dbs[db_path].exists
             THEN /\ neighbors_result' = ErrorMessage("Database file not found")
                  /\ UNCHANGED cache
             ELSE /\ cache' = GetCountriesDf(cache, db_path)
                  /\ neighbors_result' =
                        IF cache'.calls[Len(cache'.calls)].raised # None
                        THEN ErrorMessage("Error")
                        ELSE [raised |-> None, kind |-> "list", value |-> <<>>]
    /\ UNCHANGED <<pc, geometry, main_area_threshold, result, filtered, view,
                   neighbor_names, watched, sort_ties, args, db, calls, title,
                   stdout, outcome, frames, batch>>

NextCache ==
    \/ get_countries_df
    \/ find_neighbors_get_neighboring_countries

SpecCache == InitCache /\ [][NextCache]_vars

(* ------------- one country, its fragments listed in any order ---------- *)
MaxListed == 3

\* <<w, h>> of the fragments: areas 0, 1, 2 and 4
ListedShapes == {<<0, 0>>, <<1, 1>>, <<2, 1>>, <<2, 2>>}

\* the multi-polygons of two and more fragments, each fragment in its place
ListedGeometries ==
    UNION {{[kind |-> "MultiPolygon",
             geoms |-> [i \in 1 .. n |-> Fragment(i, ss[i])]] :
            ss \in [1 .. n -> ListedShapes]} : n \in 2 .. MaxListed}

\* the same fragments, listed in the order perm
Relisted(g, perm) ==
    [g EXCEPT !.geoms = [i \in 1 .. Len(g.geoms) |-> g.geoms[perm[i]]]]

\* TerritoryAnalyzer(main_area_threshold=t).analyze(country_name, geometry)
analyze_listed ==
    /\ pc = "idle"
    /\ \E name \in {"Japan"}, g \in ListedGeometries, t \in Thresholds :
          \E order \in Argsort(Areas(g)) :
             /\ country_name' = name
             /\ main_area_threshold' = t
             /\ geometry' = g
             /\ result' = Analyze(g, t, order)
             /\ watched' = [country_name |-> name, geometry |-> g,
                            result |-> Analyze(g, t, order), later_calls |-> 0]
    /\ pc' = "called"
    /\ UNCHANGED <<filtered, view, neighbor_names, sort_ties, cli_vars,
                   frames, run_vars>>

\* analyzer.analyze(country_name, geometry) again, the geometry being the
\* first call's with its fragments in another order
analyze_relisted ==
    /\ pc = "called"
    /\ \E perm \in Permutations(1 .. Len(watched.geometry.geoms)) :
          \E order \in Argsort(Areas(Relisted(watched.geometry, perm))) :
             /\ geometry' = Relisted(watched.geometry, perm)
             /\ result' = Analyze(Relisted(watched.geometry, perm),
                                  main_area_threshold, order)
    /\ pc' = "relisted"
    /\ UNCHANGED <<main_area_threshold, filtered, view, neighbor_names,
                   analyzer_vars, cli_vars, frames, run_vars>>

NextListing ==
    \/ analyze_listed
    \/ analyze_relisted

SpecListing == Init /\ [][NextListing]_vars

TypeOK ==
    /\ pc \in {"idle", "loaded", "analyzed", "filtered", "drawn"}
    /\ geometry \in Geometries \cup {NoGeometry}

(* ------------------------------ properties ----------------------------- *)
Returned == pc = "analyzed" /\ result.raised = None
IsMulti == geometry.kind = "MultiPolygon"

\* the fragment areas of the loaded geometry, as integers
AreaInt(i) == geometry.geoms[i].w * geometry.geoms[i].h
FragmentIds == 1 .. Len(geometry.geoms)
TotalAreaInt == RSum(Areas(geometry))[1]
LargestAreaInt == CHOOSE a \in {AreaInt(i) : i \in FragmentIds} :
                      \A i \in FragmentIds : AreaInt(i) <= a

\* C1: on a multi-polygon of positive total area analyze answers CONTINUOUS
\* exactly for one fragment; otherwise HAS_EXCLAVE exactly when
\* main_polygon_percentage >= main_area_threshold * 100 (boundary included),
\* and ISLAND_NATION in every remaining case.
C1_ClassificationRule ==
    (pc = "analyzed" /\ IsMulti /\ TotalAreaInt > 0) =>
        /\ result.raised = None
        /\ result.geometry_type \in {"CONTINUOUS", "HAS_EXCLAVE", "ISLAND_NATION"}
        /\ result.geometry_type = "CONTINUOUS" <=> Len(geometry.geoms) = 1
        /\ Len(geometry.geoms) > 1 =>
              (result.geometry_type = "HAS_EXCLAVE" <=>
                  RLe(RMul(main_area_threshold, Hundred),
                      result.main_polygon_percentage))

\* the boundary: two fragments or more, the share equal to the threshold
C1_Witness ==
    /\ Returned /\ IsMulti /\ Len(geometry.geoms) > 1
    /\ result.main_polygon_percentage = RMul(main_area_threshold, Hundred)
    /\ result.geometry_type = "HAS_EXCLAVE"

\* C2: a single Polygon is CONTINUOUS at every threshold, with one polygon,
\* 100 percent, distance 0, main_polygon_area = total_area and exactly one
\* territory of 100 percent.
C2_SinglePolygon ==
    (pc = "analyzed" /\ geometry.kind = "Polygon") =>
        /\ result.raised = None
        /\ result.geometry_type = "CONTINUOUS"
        /\ result.polygon_count = 1
        /\ result.main_polygon_percentage = Hundred
        /\ result.max_distance_between_polygons = Zero
        /\ result.main_polygon_area = result.total_area
        /\ result.total_area = Num(AreaInt(1))
        /\ Len(result.separate_territories) = 1
        /\ result.separate_territories[1].percentage = Hundred

\* a degenerate polygon (area 0) analysed with a threshold other than the default
C2_Witness ==
    /\ Returned /\ geometry.kind = "Polygon"
    /\ AreaInt(1) = 0
    /\ main_area_threshold = Num(1)
    /\ result.geometry_type = "CONTINUOUS"

\* the class analyze gives the loaded geometry with threshold t, whatever
\* order argsort returns
ClassesAt(t, orders) == {ClassifyMulti(geometry, t, o) : o \in orders}

\* C3: with two or more fragments and main share p, the answer at threshold t
\* is HAS_EXCLAVE when t * 100 <= p and ISLAND_NATION otherwise; so
\* HAS_EXCLAVE at t gives HAS_EXCLAVE at every smaller threshold and
\* ISLAND_NATION at t gives ISLAND_NATION at every larger one.
C3_ThresholdMonotone ==
    (Returned /\ IsMulti /\ Len(geometry.geoms) > 1) =>
        LET t == main_area_threshold
            orders == Argsort(Areas(geometry))
        IN  /\ t[1] * TotalAreaInt <= t[2] * LargestAreaInt
                => result.geometry_type = "HAS_EXCLAVE"
            /\ t[1] * TotalAreaInt > t[2] * LargestAreaInt
                => result.geometry_type = "ISLAND_NATION"
            /\ \A u \in Thresholds :
                  /\ (RLe(u, t) /\ result.geometry_type = "HAS_EXCLAVE")
                        => ClassesAt(u, orders) = {"HAS_EXCLAVE"}
                  /\ (RLe(t, u) /\ result.geometry_type = "ISLAND_NATION")
                        => ClassesAt(u, orders) = {"ISLAND_NATION"}

\* areas in the ratio 100 : 25 (share 80 percent) at threshold 0.9:
\* ISLAND_NATION there, HAS_EXCLAVE at 0.8 and at 0.7
C3_Witness ==
    /\ Returned /\ IsMulti /\ Len(geometry.geoms) = 2
    /\ AreaInt(1) = 4 /\ AreaInt(2) = 1
    /\ main_area_threshold = Frac(9, 10)
    /\ result.geometry_type = "ISLAND_NATION"
    /\ ClassesAt(Frac(8, 10), Argsort(Areas(geometry))) = {"HAS_EXCLAVE"}
    /\ ClassesAt(Frac(7, 10), Argsort(Areas(geometry))) = {"HAS_EXCLAVE"}

Percentages ==
    [k \in 1 .. Len(result.separate_territories) |->
        result.separate_territories[k].percentage]

\* C4: on a multi-fragment geometry the percentages of separate_territories
\* sum to 100: total_area is the sum of the fragment areas and each
\* percentage is 100 * area / total_area.
C4_PercentagesSum ==
    (Returned /\ IsMulti) =>
        /\ RSum(Percentages) = Hundred
        /\ result.total_area = Num(TotalAreaInt)
        /\ \A k \in 1 .. Len(result.separate_territories) :
              RMul(result.separate_territories[k].percentage, result.total_area)
                  = RMul(Hundred, result.separate_territories[k].area)

\* three fragments whose percentages are not whole numbers
C4_Witness ==
    /\ Returned /\ IsMulti /\ Len(geometry.geoms) = 3
    /\ \A k \in 1 .. 3 : result.separate_territories[k].percentage[2] # 1

\* C5: every result is well-formed: separate_territories holds each input
\* fragment exactly once (polygon_count = len(separate_territories) >= 1),
\* ordered by area descending, and main_polygon_area and
\* main_polygon_percentage are those of the first entry.
C5_WellFormed ==
    Returned =>
        LET ts == result.separate_territories
        IN  /\ result.polygon_count = Len(ts)
            /\ Len(ts) = Len(geometry.geoms)
            /\ Len(ts) >= 1
            /\ \A i \in FragmentIds :
                  Cardinality({k \in 1 .. Len(ts) :
                      /\ ts[k].centroid = Centroid(geometry.geoms[i])
                      /\ ts[k].area = Num(AreaInt(i))}) = 1
            /\ \A k \in 1 .. Len(ts) - 1 : RLe(ts[k + 1].area, ts[k].area)
            /\ result.main_polygon_area = ts[1].area
            /\ result.main_polygon_percentage = ts[1].percentage

\* three fragments of three different areas, the largest listed last
C5_Witness ==
    /\ Returned /\ IsMulti /\ Len(geometry.geoms) = 3
    /\ AreaInt(1) < AreaInt(2) /\ AreaInt(2) < AreaInt(3)
    /\ result.separate_territories[1].centroid = Centroid(geometry.geoms[3])

Drawn == pc = "drawn" /\ view.raised = None
\* scale_factor^2 of the drawn view
Q == RDiv(Num(1), view.config.target_percentage)
TargetBounds == Bounds(view.target_geom)
TargetWidth == TargetBounds[3] - TargetBounds[1]
TargetHeight == TargetBounds[4] - TargetBounds[2]
TargetSize == IF TargetWidth > TargetHeight THEN TargetWidth ELSE TargetHeight
ValidTarget == TargetWidth > 0 /\ TargetHeight > 0
ViewWidth == SSub(view.bounds[3], view.bounds[1])
ViewHeight == SSub(view.bounds[4], view.bounds[2])
SquareWidth == SSub(view.square[3], view.square[1])
SquareHeight == SSub(view.square[4], view.square[2])
Aspect == AspectRatio(view.config)

\* C6: for a target whose bounding box has positive width and height, every
\* target_percentage in (0, 1] and every figure aspect ratio, the bounds
\* create_map sets on the axes contain the target's bounding box.
C6_FramingContainment ==
    (Drawn /\ ValidTarget) =>
        /\ SLe(view.bounds[1], Plain(Num(TargetBounds[1])), Q)
        /\ SLe(view.bounds[2], Plain(Num(TargetBounds[2])), Q)
        /\ SLe(Plain(Num(TargetBounds[3])), view.bounds[3], Q)
        /\ SLe(Plain(Num(TargetBounds[4])), view.bounds[4], Q)

\* the renderer frames the main fragment of a multi-polygon at fraction 1/2
C6_Witness ==
    /\ Drawn /\ ValidTarget
    /\ view.variant = "renderer"
    /\ geometry.kind = "MultiPolygon" /\ Len(geometry.geoms) > 1
    /\ view.target_geom.kind = "Polygon"
    /\ view.config.target_percentage = Frac(1, 2)
    /\ ~SLe(Plain(Num(TargetBounds[1])), view.bounds[1], Q)

C8_ScaleLaw ==
    (Drawn /\ ValidTarget) =>
        RMul(SSquare(SquareWidth, Q), view.config.target_percentage)
            = Num(TargetSize * TargetSize)

\* C9: at target_percentage = 1.0 the side of the view before the aspect
\* adjustment is the longer side of the target's bounding box.
C9_FractionOne ==
    (Drawn /\ view.config.target_percentage = Num(1)) =>
        /\ SEq(SquareWidth, Plain(Num(TargetSize)), Q)
        /\ SEq(SquareHeight, Plain(Num(TargetSize)), Q)

\* draw_map.py frames a target taller than wide at fraction 1
C9_Witness ==
    /\ Drawn /\ view.config.target_percentage = Num(1)
    /\ view.variant = "draw_map"
    /\ 0 < TargetWidth /\ TargetWidth < TargetHeight
    /\ SquareWidth = Plain(Num(TargetHeight))

\* g is one fragment of src, and no fragment of src has a larger area
IsMainFragmentOf(g, src) ==
    /\ g.kind = "Polygon"
    /\ Len(g.geoms) = 1
    /\ \E i \in 1 .. Len(src.geoms) : src.geoms[i] = g.geoms[1]
    /\ \A i \in 1 .. Len(src.geoms) :
          src.geoms[i].w * src.geoms[i].h <= g.geoms[1].w * g.geoms[1].h

\* C10: exclave reduction of a MultiPolygon (filter_exclaves, and create_map
\* with exclude_exclaves) always yields a single Polygon, a fragment of the
\* input of maximal area.
C10_ReductionSinglePolygon ==
    /\ (pc = "filtered" /\ IsMulti)
          => IsMainFragmentOf(filtered.country, geometry)
    /\ (/\ pc = "drawn" /\ view.variant = "renderer"
        /\ view.config.exclude_exclaves /\ TargetCountry.kind = "MultiPolygon")
          => IsMainFragmentOf(view.target_geom, TargetCountry)

\* three fragments, the largest one listed last
C10_Witness ==
    /\ pc = "filtered" /\ IsMulti /\ Len(geometry.geoms) = 3
    /\ AreaInt(1) < AreaInt(3) /\ AreaInt(2) < AreaInt(3)
    /\ filtered.country.geoms[1] = geometry.geoms[3]

\* C11: filter_exclaves on a single Polygon is a no-op: it returns the very
\* frame it was given, with the percentage of the first territory, and the
\* caller's neighbour list is the one that was loaded.
C11_SinglePolygonNoOp ==
    (pc = "filtered" /\ geometry.kind = "Polygon") =>
        /\ filtered.same_object
        /\ filtered.country = geometry
        /\ filtered.percentage = result.separate_territories[1].percentage
        /\ filtered.percentage = Hundred
        /\ neighbor_names = NeighborNames(geometry)

\* a 2 x 1 polygon went through filter_exclaves
C11_Witness ==
    /\ pc = "filtered" /\ geometry.kind = "Polygon"
    /\ geometry.geoms[1].w = 2 /\ geometry.geoms[1].h = 1
    /\ filtered.same_object
    /\ Len(neighbor_names) = 1

\* C12 as claimed: analyze on a multi-fragment geometry whose fragments all
\* have area 0 fails with DegenerateGeometryError (and returns no result).
C12_DegenerateGeometryError ==
    (pc = "analyzed" /\ IsMulti /\ TotalAreaInt = 0) =>
        result.raised = "DegenerateGeometryError"

\* create_map ran on a target whose bounding box has no width or no height
InvalidTarget ==
    /\ pc = "drawn"
    /\ view.target_geom # NoGeometry
    /\ (TargetWidth <= 0 \/ TargetHeight <= 0)

\* C14 as claimed: when the target's bounding box has width <= 0 or height
\* <= 0, create_map fails with InvalidBoundsError and sets no bounds on the map.
C14_InvalidBoundsError ==
    InvalidTarget => (view.raised = "InvalidBoundsError" /\ view.bounds = <<>>)

\* the bounding box of the original geometry, which the retry of
\* draw_map.py's create_map computes from
RetryInvalid ==
    LET retry == Bounds(geometry)
    IN  retry[3] <= retry[1] \/ retry[4] <= retry[2]

\* C15 as claimed: when draw_map.py's create_map has fallen back to the
\* original geometry and the retry's bounds are invalid too, the error is
\* surfaced and no map is saved with these bounds.
C15_RetryThenSurface ==
    (pc = "drawn" /\ view.variant = "draw_map" /\ view.fallback /\ RetryInvalid)
        => (view.raised # None /\ view.bounds = <<>>)

\* C13 as claimed: analyze fails with GeometryTypeError whenever the geometry
\* it is handed is neither a Polygon nor a MultiPolygon, and classifies nothing.
C13_GeometryTypeError ==
    (/\ pc = "called"
     /\ geometry # NoGeometry
     /\ geometry.kind \notin {"Polygon", "MultiPolygon"})
        => result.raised = "GeometryTypeError"

MapStage ==
    /\ pc = "generate_map"
    /\ geometry # NoGeometry
    /\ result.raised \in {None, "NotCalled"}

CallsOf(fn) == {i \in 1 .. Len(calls) : calls[i].fn = fn}

LoadFailed == geometry = NoGeometry
RequestFailed ==
    /\ pc \in {"generate_map", "analyze_territory"}
    /\ \/ LoadFailed
       \/ result.raised \notin {None, "NotCalled"}
       \/ view.raised # None

ErrorPrinted ==
    /\ stdout # <<>>
    /\ stdout[Len(stdout)][1] =
          (IF pc = "generate_map" THEN "Error creating map"
           ELSE "Error analyzing territory")
    /\ stdout[Len(stdout)][2] \in
          {"FileNotFoundError", "ValueError", "ZeroDivisionError", "OSError",
           "TypeError", "DatabaseError", "OperationalError"}

\* C18: a failed map or analyze request prints the error and
\* returns: no exception reaches the caller, the process is not terminated,
\* and create_map is not called after a failed load.
C18_AbortsOnlyTheRequest ==
    RequestFailed =>
        /\ ErrorPrinted
        /\ outcome = "returned"
        /\ LoadFailed => CallsOf("create_map") = {}

Suffixes == {" (Continuous Territory)", " (Island Nation)", " (With Exclaves)"}

SuffixOf(geometry_type) ==
    CASE geometry_type = "CONTINUOUS" -> " (Continuous Territory)"
      [] geometry_type = "ISLAND_NATION" -> " (Island Nation)"
      [] geometry_type = "HAS_EXCLAVE" -> " (With Exclaves)"

LookupFails == ~db.exists \/ db.fault \/ db.row = NoGeometry

\* C20: get_neighboring_countries never raises and returns an error message
\* exactly when the database is missing, the country unknown or the lookup
\* hit an exception; load_country_data raises FileNotFoundError for a missing
\* database, before any lookup, and ValueError for every error message of the
\* lookup, so it returns only with a list of neighbours.
C20_LookupFailureRaises ==
    /\ pc = "get_neighboring_countries" =>
          /\ outcome = "returned"
          /\ neighbors_result.raised = None
          /\ neighbors_result.kind \in {"str", "list"}
          /\ neighbors_result.kind = "str" <=> LookupFails
    /\ pc = "load_country_data" =>
          /\ ~db.exists =>
                (outcome = "FileNotFoundError" /\ neighbors_result = NotCalled)
          /\ neighbors_result.kind = "str" => outcome = "ValueError"
          /\ LookupFails => outcome \in {"FileNotFoundError", "ValueError"}
          /\ outcome = "returned" =>
                /\ neighbors_result.kind = "list"
                /\ neighbor_names = neighbors_result.value
                /\ geometry = db.row

\* load_country_data for a country the database does not hold
C20_Witness ==
    /\ pc = "load_country_data"
    /\ db.exists /\ ~db.fault /\ db.row = NoGeometry
    /\ neighbors_result = ErrorMessage("Country not found")
    /\ outcome = "ValueError"

\* C21: after analyze, filter_exclaves or create_map returned, the caller's
\* target_country and countries frames and its neighbour list are what they
\* were when they were loaded; the reduced geometry of filter_exclaves is in
\* a copy, and the country_type column of create_map is in a copy.
C21_InputsNotMutated ==
    pc \in {"analyzed", "filtered", "drawn"} =>
        /\ frames.target_country = LoadedFrames(geometry).target_country
        /\ frames.countries = LoadedFrames(geometry).countries
        /\ neighbor_names = NeighborNames(geometry)
        /\ (filtered # NoFiltered /\ IsMulti) =>
              /\ frames.filtered_country.geometry = filtered.country
              /\ frames.filtered_country.geometry.kind = "Polygon"
              /\ frames.target_country.geometry.kind = "MultiPolygon"
              /\ Len(frames.target_country.geometry.geoms) = Len(geometry.geoms)
        /\ (pc = "drawn" /\ view.variant = "renderer") =>
              /\ "country_type" \in frames.countries_copy.columns
              /\ "country_type" \notin frames.countries.columns

\* a country of three fragments, reduced by filter_exclaves and drawn
C21_Witness ==
    /\ pc = "drawn"
    /\ Len(geometry.geoms) = 3
    /\ filtered # NoFiltered
    /\ frames.filtered_country.geometry.kind = "Polygon"
    /\ frames.target_country.geometry = geometry
    /\ "country_type" \in frames.countries_copy.columns

\* C22: for a multi-fragment country, ties for the largest area included, the
\* fragment that exclave reduction keeps (filter_exclaves, and create_map on
\* its output) is the fragment analyze reports as main: same area as
\* main_polygon_area, same centroid as separate_territories[0].
C22_KeptIsMain ==
    (/\ pc \in {"filtered", "drawn"}
     /\ filtered # NoFiltered
     /\ IsMulti /\ Len(geometry.geoms) >= 2) =>
        LET kept == IF pc = "drawn" THEN view.target_geom.geoms[1]
                    ELSE filtered.country.geoms[1]
        IN  /\ Area(kept) = result.main_polygon_area
            /\ Centroid(kept) = result.separate_territories[1].centroid

\* the reduced geometry was used: the country has several fragments and the
\* map was framed on its main fragment alone
ReductionApplied ==
    /\ pc = "drawn" /\ view.raised = None
    /\ IsMulti /\ Len(geometry.geoms) >= 2
    /\ view.target_geom.kind = "Polygon"

\* C23: when exclave reduction is applied, the neighbours drawn and counted
\* are exactly the neighbours of the loaded list that touch or intersect the
\* main fragment, in the order of the list; the others are dropped.
C23_NeighborsPartitioned ==
    ReductionApplied =>
        LET main_fragment == view.target_geom.geoms[1]
            retained == SelectSeq(neighbor_names,
                           LAMBDA name : Borders(name, main_fragment, geometry))
            dropped == SelectSeq(neighbor_names,
                          LAMBDA name : ~Borders(name, main_fragment, geometry))
        IN  /\ view.neighbor_names = retained
            /\ \A i \in 1 .. Len(dropped) :
                  \A j \in 1 .. Len(view.neighbor_names) :
                     view.neighbor_names[j] # dropped[i]

\* the centroid distances of the unordered pairs of fragments (as squares)
PairDistances ==
    {DistanceSq(Centroid(geometry.geoms[p[1]]), Centroid(geometry.geoms[p[2]])) :
        p \in {q \in FragmentIds \X FragmentIds : q[1] < q[2]}}

\* C24: max_distance_between_polygons is the largest centroid-to-centroid
\* distance over the pairs i < j of fragments: no pair is farther apart and,
\* with two or more fragments, one pair is exactly that far apart; it is
\* never negative, and it is 0 for a single fragment.
C24_MaxDistance ==
    Returned =>
        LET d == result.max_distance_between_polygons
        IN  /\ RLe(Zero, d)
            /\ \A pd \in PairDistances : RLe(pd, d)
            /\ Len(geometry.geoms) >= 2 => d \in PairDistances
            /\ Len(geometry.geoms) = 1 => d = Zero

\* three fragments: the first and the last are the farthest apart
C24_Witness ==
    /\ Returned /\ IsMulti
    /\ Len(geometry.geoms) = 3
    /\ result.max_distance_between_polygons =
          DistanceSq(Centroid(geometry.geoms[1]), Centroid(geometry.geoms[3]))
    /\ RLt(DistanceSq(Centroid(geometry.geoms[1]), Centroid(geometry.geoms[2])),
           result.max_distance_between_polygons)
    /\ RLt(DistanceSq(Centroid(geometry.geoms[2]), Centroid(geometry.geoms[3])),
           result.max_distance_between_polygons)

\* C25: the view computed before any aspect adjustment is a square, x_max -
\* x_min = y_max - y_min, and its centre is the centre of the target's
\* bounding box, in both create_map variants, for every target and fraction.
C25_SquareCentred ==
    Drawn =>
        /\ SEq(SquareWidth, SquareHeight, Q)
        /\ SEq(SAdd(view.square[1], view.square[3]),
               Plain(Num(TargetBounds[1] + TargetBounds[3])), Q)
        /\ SEq(SAdd(view.square[2], view.square[4]),
               Plain(Num(TargetBounds[2] + TargetBounds[4])), Q)

\* draw_map.py on a target twice as wide as high, at fraction 1/2: a square
\* of side 4
C25_Witness ==
    /\ Drawn
    /\ view.variant = "draw_map"
    /\ TargetWidth = 2 /\ TargetHeight = 1
    /\ view.config.target_percentage = Frac(1, 2)
    /\ SquareWidth = Plain(Num(4))
    /\ SquareHeight = Plain(Num(4))

XUnchanged == view.bounds[1] = view.square[1] /\ view.bounds[3] = view.square[3]
YUnchanged == view.bounds[2] = view.square[2] /\ view.bounds[4] = view.square[4]

\* C26: the aspect adjustment of draw_map.py changes at most one axis of the
\* square view and only expands it, symmetrically: the adjusted view contains
\* the square and has its centre.  A figure higher than wide (ratio < 1)
\* grows the height, every other figure the width, by zero at ratio 1.
C26_AspectAdjustOneAxis ==
    (Drawn /\ view.variant = "draw_map") =>
        /\ XUnchanged \/ YUnchanged
        /\ SLe(view.bounds[1], view.square[1], Q)
        /\ SLe(view.bounds[2], view.square[2], Q)
        /\ SLe(view.square[3], view.bounds[3], Q)
        /\ SLe(view.square[4], view.bounds[4], Q)
        /\ SEq(SAdd(view.bounds[1], view.bounds[3]),
               SAdd(view.square[1], view.square[3]), Q)
        /\ SEq(SAdd(view.bounds[2], view.bounds[4]),
               SAdd(view.square[2], view.square[4]), Q)
        /\ IF RLt(Aspect, Num(1))
           THEN /\ XUnchanged
                /\ TargetSize > 0 => ~YUnchanged
           ELSE /\ YUnchanged
                /\ (TargetSize > 0 /\ RLt(Num(1), Aspect)) => ~XUnchanged
        /\ Aspect = Num(1) => (XUnchanged /\ YUnchanged)

\* a figure of 8 x 10 inches: the height of the square view grows
C26_Witness ==
    /\ Drawn /\ view.variant = "draw_map"
    /\ view.config.figsize = <<8, 10>>
    /\ TargetSize = 2
    /\ XUnchanged
    /\ SSign(SSub(view.bounds[2], view.square[2]), Q) < 0
    /\ SSign(SSub(view.bounds[4], view.square[4]), Q) > 0

\* C27: exclave reduction applied to its own output returns it unchanged:
\* reducing create_map's target again gives the same target, and on a country
\* already reduced by filter_exclaves the reduction inside create_map changes
\* neither the geometry nor the bounds derived from it.
C27_ReductionIdempotent ==
    (Drawn /\ view.variant = "renderer") =>
        /\ RendererTarget(view.target_geom, view.config) = view.target_geom
        /\ filtered # NoFiltered =>
              /\ view.config.exclude_exclaves
              /\ view.target_geom = filtered.country
              /\ FilterExclaves(filtered.country, result).country = filtered.country
              /\ view.bounds =
                    RendererView(filtered.country, neighbor_names,
                                 [view.config EXCEPT !.exclude_exclaves = FALSE]).bounds

\* a country of three fragments reduced by filter_exclaves, then drawn with
\* exclude_exclaves set
C27_Witness ==
    /\ Drawn /\ view.variant = "renderer"
    /\ Len(geometry.geoms) = 3
    /\ filtered # NoFiltered
    /\ view.config.exclude_exclaves
    /\ view.target_geom = filtered.country
    /\ view.target_geom.kind = "Polygon"

\* what the caller sees of a result apart from the centroids
Summary(r) ==
    [raised |-> r.raised, geometry_type |-> r.geometry_type,
     polygon_count |-> r.polygon_count, total_area |-> r.total_area,
     main_polygon_area |-> r.main_polygon_area,
     main_polygon_percentage |-> r.main_polygon_percentage,
     max_distance_between_polygons |-> r.max_distance_between_polygons,
     territories |->
        [k \in 1 .. Len(r.separate_territories) |->
            <<r.separate_territories[k].area,
              r.separate_territories[k].percentage>>]]

RECURSIVE TakenUp(_)
TakenUp(log) ==
    IF log = <<>> THEN <<>>
    ELSE IF log[1][2] \in {"Processing", "Analyzing"}
    THEN <<log[1][3]>> \o TakenUp(Tail(log))
    ELSE TakenUp(Tail(log))

\* how the passes of the loop ended, as the log shows it
RECURSIVE Endings(_)
Endings(log) ==
    IF log = <<>> THEN <<>>
    ELSE IF log[1][2] \in {"Error processing", "Error analyzing",
                           "Map saved to", "====="}
    THEN <<<<log[1][1], log[1][3]>>>> \o Endings(Tail(log))
    ELSE Endings(Tail(log))

InBatch == pc \in {"loop", "returned"} /\ batch.entered

\* C29: in a run over a list of countries the passes of the loop take up the
\* countries in list order, one pass per entry of the list; every pass ends
\* with its last line or with an ERROR line naming its country, and no
\* exception leaves the loop; the loop is left only after the last entry,
\* with every entry taken up once.
C29_BatchContinues ==
    InBatch =>
        /\ batch.raised = None
        /\ batch.done <= Len(batch.countries)
        /\ TakenUp(batch.log) = SubSeq(batch.countries, 1, batch.done)
        /\ Len(Endings(batch.log)) = batch.done
        /\ \A k \in 1 .. batch.done :
              Endings(batch.log)[k][2] = batch.countries[k]
        /\ pc = "returned" => TakenUp(batch.log) = batch.countries

\* a run of two countries has returned: the first pass failed, the second
\* saved its map
C29_Witness ==
    /\ pc = "returned" /\ batch.entered
    /\ batch.program = "example_territory_map"
    /\ Len(batch.countries) = 2
    /\ Endings(batch.log)[1] = <<"ERROR", batch.countries[1]>>
    /\ Endings(batch.log)[2] = <<"INFO", batch.countries[2]>>
    /\ batch.saved = <<batch.countries[2]>>

\* the calls of get_countries_df made so far
CacheCalls == 1 .. Len(cache.calls)

\* the cached table as a frame of geometries (None for a NULL)
CachedTable ==
    [i \in 1 .. Len(cache.file.rows) |->
        [cache.file.rows[i] EXCEPT !.geometry = IF @ = Null THEN NoGeometry
                                                ELSE WkbLoads(@)]]

\* C30: a call that finds the cache file returns the cached table and opens
\* no connection, whatever db_path it is given; a call that finds none
\* connects to db_path and, when it returns, has written the frame of that
\* database to the cache; after the first call that wrote the cache every
\* call is served from the cache and returns what that first call returned.
C30_CacheExistenceOnly ==
    /\ \A k \in CacheCalls :
          LET c == cache.calls[k]
          IN  IF c.cached
              THEN /\ ~c.connected
                   /\ c.raised = None
                   /\ c.returned = CachedTable
              ELSE /\ c.connected
                   /\ c.raised = None =>
                         /\ c.returned = ReadDb(cache.dbs[c.db_path].table)
                         /\ cache.file = [exists |-> TRUE,
                                           rows |-> ToParquet(c.returned)]
    /\ \A j, k \in CacheCalls :
          (j < k /\ ~cache.calls[j].cached /\ cache.calls[j].raised = None) =>
              /\ cache.calls[k].cached
              /\ cache.calls[k].returned = cache.calls[j].returned

====
